---- MODULE Spec2Model ----
(***************************************************************************)
(* Topic rotation / cooldown selector (topic_manager.py), the three retry  *)
(* orchestrators (article_generator.py, wordpress_publisher.py) and the    *)
(* pipeline driver (run_article.py) of the automated article generator.    *)
(*                                                                         *)
(* The two JSON documents are the variables catalog (topics.json) and      *)
(* ledger (published.json).  A Python dict keeps key insertion order, so   *)
(* the catalog is a sequence of category records; its 0-based positions    *)
(* are the values of last_category_index.  Whether each document exists   *)
(* and can be loaded is the variable files.  Further parts: the excerpt    *)
(* and keyword rules of _build_article_result, and two runs whose loads    *)
(* and saves of the ledger document interleave.                            *)
(***************************************************************************)
EXTENDS Integers, Sequences, FiniteSets, TLC

VARIABLES
    catalog,         \* topics.json: sequence of [key, name, topics]
    ledger,          \* published.json: [articles, last_category_index]
    cooldown_count,  \* TopicManager.cooldown_count
    ret,             \* the last TopicManager call and what it returned
    pc,              \* run_pipeline: the step about to execute
    run,             \* run_pipeline: its arguments and local variables
    exit_code,       \* run_pipeline: the value returned, -1 while it runs
    site,            \* the orchestrated call under way: research, generate, publish
    max_retries,     \* its max_retries
    base_delay,      \* WordPressPublisher.base_delay (publish only)
    attempt,         \* the loop variable of its for loop
    trail,           \* per finished attempt: what the collaborator answered
                     \* and the seconds slept after it
    status,          \* running, returned, or the exception class raised
    files,           \* topics_file and published_file on disk: ok (exists and
                     \* parses), absent, or corrupt (exists, cannot be loaded)
    article,         \* _build_article_result: the payload and the result
    procs,           \* concurrent runs: each one's copy of the ledger document
    posts            \* the publishing backend: the number of posts it holds

tmVars == <<catalog, ledger, files, cooldown_count, ret>>

plVars == <<pc, run, exit_code>>

rtVars == <<site, max_retries, base_delay, attempt, trail, status>>

agVars == <<article>>

ccVars == <<procs>>

beVars == <<posts>>

vars == <<catalog, ledger, cooldown_count, ret, pc, run, exit_code,
          site, max_retries, base_delay, attempt, trail, status,
          files, article, procs, posts>>

-----------------------------------------------------------------------------
(* Bounds of the model *)

MaxLedger == 3      \* publications recorded in one behaviour
MaxCooldown == 2    \* small cooldown windows tried besides the default
MaxTopics == 2      \* topics per category after add_topic
MaxRetries == 3     \* largest max_retries tried
MaxLogged == 2      \* log_publication calls with free arguments
MaxKeywords == 2    \* keywords in a payload
MaxExcerpt == 163   \* longest excerpt in a payload, in characters
MaxPosts == 3       \* posts on the backend

-----------------------------------------------------------------------------
(* Strings *)

\* Topic strings: "T1" and "t1" differ only in letter case.
Topics == {"t1", "T1", "t2", "t3"}

\* Keyword strings: three spellings of the required keyword, and two others
Keywords == {"parga", "Parga", "PARGA", "beach", "greece"}

\* str.lower() on the topic and keyword strings
Lower(s) == IF s = "T1" THEN "t1"
            ELSE IF s \in {"Parga", "PARGA"} THEN "parga"
            ELSE s

DEFAULT_COOLDOWN == 10

None == "None"

-----------------------------------------------------------------------------
(* Python helpers *)

\* s[start:] with Python's index normalisation (negative start counts from
\* the end and is clamped at 0; a start past the end gives the empty list)
PySliceFrom(s, start) ==
    LET n == Len(s)
        lo == IF start < 0
              THEN (IF n + start < 0 THEN 0 ELSE n + start)
              ELSE (IF start > n THEN n ELSE start)
    IN  SubSeq(s, lo + 1, n)

\* the elements of a sequence
Range(s) == {s[i] : i \in 1..Len(s)}

\* a % n for n > 0 (Python's result has the sign of n)
PyMod(a, n) == a % n

-----------------------------------------------------------------------------
(* TopicManager *)

\* mutant: the topics are collected without .lower()
RecentTopicsNoLower(articles, cooldown) ==
    LET recent_articles == IF articles # <<>>
                           THEN PySliceFrom(articles, 0 - cooldown)
                           ELSE <<>>
    IN  {recent_articles[i].topic : i \in 1..Len(recent_articles)}

\* _get_recent_topics: articles[-cooldown_count:] if articles else [],
\* then the set of the lowercased topics
RecentTopics(articles, cooldown) ==
    LET recent_articles == IF articles # <<>>
                           THEN PySliceFrom(articles, 0 - cooldown)
                           ELSE <<>>
    IN  {Lower(recent_articles[i].topic) : i \in 1..Len(recent_articles)}

\* mutant: the last available topic of the list wins
LastAvailable(topics, recent_topics) ==
    LET free == {i \in 1..Len(topics) : Lower(topics[i]) \notin recent_topics}
    IN  IF free = {} THEN 0
        ELSE CHOOSE i \in free : \A j \in free : i >= j

\* mutant: only the first topic of the list is looked at
FirstAvailableHeadOnly(topics, recent_topics) ==
    IF topics # <<>> /\ Lower(topics[1]) \notin recent_topics THEN 1 ELSE 0

\* the inner loop of get_next_topic: the position (1-based) of the first topic
\* of the list whose lowercase form is not in recent_topics, 0 when none
FirstAvailable(topics, recent_topics) ==
    LET free == {i \in 1..Len(topics) : Lower(topics[i]) \notin recent_topics}
    IN  IF free = {} THEN 0
        ELSE CHOOSE i \in free : \A j \in free : i <= j

\* mutant: the scan starts one category too far
NextIndexSkipsOne(last_index, offset, num_categories) ==
    PyMod(last_index + 2 + offset, num_categories)

\* mutant: the scan starts again at the category used last
NextIndexNoAdvance(last_index, offset, num_categories) ==
    PyMod(last_index + offset + num_categories, num_categories)

\* next_index = (last_index + 1 + offset) % num_categories
NextIndex(last_index, offset, num_categories) ==
    PyMod(last_index + 1 + offset, num_categories)

\* the outer loop of get_next_topic from a given offset on
RECURSIVE RotationScan(_, _, _, _)
RotationScan(topic_pool, recent_topics, last_index, offset) ==
    LET num_categories == Len(topic_pool) IN
    IF offset >= num_categories
    THEN [found |-> FALSE, next_index |-> -1, topic |-> None, category |-> None]
    ELSE LET next_index == NextIndex(last_index, offset, num_categories)
             category_data == topic_pool[next_index + 1]
             hit == FirstAvailable(category_data.topics, recent_topics)
         IN  IF hit # 0
             THEN [found |-> TRUE, next_index |-> next_index,
                   topic |-> category_data.topics[hit],
                   category |-> category_data.name]
             ELSE RotationScan(topic_pool, recent_topics, last_index, offset + 1)

\* mutant: the index is set but the document is not saved
PersistSelectionNoSave(published, next_index) == published

\* mutant: the index is saved 1-based
PersistSelectionOneBased(published, next_index) ==
    [published EXCEPT !.last_category_index = next_index + 1]

\* mutant: a fresh document with the index is saved
PersistSelectionFresh(published, next_index) ==
    [articles |-> <<>>, last_category_index |-> next_index]

\* published["last_category_index"] = next_index; self._save_published(published)
PersistSelection(published, next_index) ==
    [published EXCEPT !.last_category_index = next_index]

\* mutant: the newest entry, articles[-1], is reused
NewestArticle(articles) == articles[Len(articles)]

\* oldest = articles[0]
OldestArticle(articles) == articles[1]

\* get_next_topic from the documents it loaded and the recent topics (which
\* _get_recent_topics takes from a load of its own): which return statement
\* is taken (path), what is returned, and the index written to the ledger
\* document (save = TRUE iff _save_published is called)
GetNextTopicWith(topic_pool, published, recent_topics) ==
    LET scan == RotationScan(topic_pool, recent_topics,
                             published.last_category_index, 0)
        articles == published.articles
    IN  IF scan.found
        THEN [path |-> "rotation", topic |-> scan.topic,
              category |-> scan.category, save |-> TRUE,
              next_index |-> scan.next_index]
        ELSE IF articles # <<>>
        THEN [path |-> "oldest", topic |-> OldestArticle(articles).topic,
              category |-> OldestArticle(articles).category, save |-> FALSE,
              next_index |-> published.last_category_index]
        ELSE IF topic_pool # <<>> /\ topic_pool[1].topics # <<>>
        THEN [path |-> "first", topic |-> topic_pool[1].topics[1],
              category |-> topic_pool[1].name, save |-> FALSE,
              next_index |-> published.last_category_index]
        ELSE \* categories[0] or ["topics"][0] raises IndexError
             [path |-> "raise", topic |-> None, category |-> None,
              save |-> FALSE, next_index |-> published.last_category_index]

\* get_next_topic as a function of the two documents and the cooldown, when
\* nothing is written between its loads
get_next_topic(topic_pool, published, cooldown) ==
    GetNextTopicWith(topic_pool, published,
                     RecentTopics(published.articles, cooldown))

\* _find_category_for_topic
RECURSIVE FindCategoryFrom(_, _, _)
FindCategoryFrom(topic_pool, topic, i) ==
    IF i > Len(topic_pool) THEN "Unknown"
    ELSE IF Lower(topic) \in {Lower(t) : t \in Range(topic_pool[i].topics)}
         THEN topic_pool[i].name
         ELSE FindCategoryFrom(topic_pool, topic, i + 1)

\* mutant: the topic is compared as it is written
find_category_exact_case(topic_pool, topic) ==
    LET at == {i \in 1..Len(topic_pool) : topic \in Range(topic_pool[i].topics)}
    IN  IF at = {} THEN "Unknown"
        ELSE topic_pool[CHOOSE i \in at : \A j \in at : i <= j].name

find_category_for_topic(topic_pool, topic) == FindCategoryFrom(topic_pool, topic, 1)

\* `not category`: None and the empty string
NotGiven(category) == category \in {None, ""}

\* the record log_publication builds (the date field, datetime.now(), is
\* left out: nothing reads it)
PublicationRecord(topic_pool, topic, title, url, category) ==
    [topic |-> topic, title |-> title, url |-> url,
     category |-> IF NotGiven(category)
                  THEN find_category_for_topic(topic_pool, topic)
                  ELSE category]

\* mutant: the record is inserted at the head
log_publication_prepend(topic_pool, published, topic, title, url, category) ==
    [published EXCEPT !.articles =
        <<PublicationRecord(topic_pool, topic, title, url, category)>> \o @]

\* mutant: the record is appended twice
log_publication_twice(topic_pool, published, topic, title, url, category) ==
    [published EXCEPT !.articles =
        Append(Append(@, PublicationRecord(topic_pool, topic, title, url, category)),
               PublicationRecord(topic_pool, topic, title, url, category))]

\* what log_publication saves
log_publication(topic_pool, published, topic, title, url, category) ==
    [published EXCEPT !.articles =
        Append(@, PublicationRecord(topic_pool, topic, title, url, category))]

\* the position of a category key in the catalog, 0 when absent
KeyPos(topic_pool, category_key) ==
    LET at == {i \in 1..Len(topic_pool) : topic_pool[i].key = category_key}
    IN  IF at = {} THEN 0 ELSE CHOOSE i \in at : TRUE

\* mutant: the topic is compared as it is written
add_topic_ok_exact_case(topic_pool, topic, category_key) ==
    /\ KeyPos(topic_pool, category_key) # 0
    /\ topic \notin Range(topic_pool[KeyPos(topic_pool, category_key)].topics)

\* add_topic: whether the topic is added (the return value)
add_topic_ok(topic_pool, topic, category_key) ==
    /\ KeyPos(topic_pool, category_key) # 0
    /\ Lower(topic) \notin
         {Lower(t) : t \in Range(topic_pool[KeyPos(topic_pool, category_key)].topics)}

\* mutant: the new topic is put in front of the category's topics
add_topic_in_front(topic_pool, topic, category_key) ==
    IF add_topic_ok(topic_pool, topic, category_key)
    THEN [topic_pool EXCEPT ![KeyPos(topic_pool, category_key)].topics =
              <<topic>> \o @]
    ELSE topic_pool

\* add_topic: the catalog document afterwards
add_topic(topic_pool, topic, category_key) ==
    IF add_topic_ok(topic_pool, topic, category_key)
    THEN [topic_pool EXCEPT ![KeyPos(topic_pool, category_key)].topics =
              Append(@, topic)]
    ELSE topic_pool

-----------------------------------------------------------------------------
(* Initial documents *)

\* topic lists with no two topics equal case-insensitively
TopicLists ==
    { <<>>, <<"t1">>, <<"t3">>, <<"t1", "t2">>, <<"T1", "t3">>, <<"t2", "t1">> }

Category(key, name, topics) == [key |-> key, name |-> name, topics |-> topics]

\* the catalog written when topics.json does not exist, cut down to two of
\* its six categories and three of its topics
DEFAULT_TOPIC_POOL ==
    <<Category("beaches", "Beaches", <<"t1", "t2">>),
      Category("restaurants_food", "Restaurants & Food", <<"t3">>)>>

\* catalogs of zero, one or two categories, keys in document order
Catalogs ==
    {<<>>}
    \cup {<<Category("a", "A", ta)>> : ta \in TopicLists}
    \cup {<<Category("a", "A", p[1]), Category("b", "B", p[2])>> : p \in
            { <<<<"t1", "t2">>, <<"t3">>>>,        \* the scenario of section 8
              <<<<>>, <<"t1">>>>,                  \* an empty category first
              <<<<"t1">>, <<>>>>,
              <<<<>>, <<>>>>,
              <<<<"t1">>, <<"t1">>>>,              \* one topic in two categories
              <<<<"T1", "t3">>, <<"t1", "t2">>>>,  \* the same up to letter case
              <<<<"t2", "t1">>, <<"t3">>>>,
              <<<<"t1">>, <<"t2">>>>,
              <<<<"t3">>, <<"t1", "t2">>>> }}

Cooldowns == (0..MaxCooldown) \cup {DEFAULT_COOLDOWN}

\* _ensure_published_file: the empty ledger document
EmptyLedger == [articles |-> <<>>, last_category_index |-> -1]

\* _load_topic_pool, _load_published: the document can be read and parsed
\* (otherwise the loader raises RuntimeError)
Loadable(file) == files[file] = "ok"

\* mutant: the empty ledger is written whether or not the file exists
ensure_published_file_always(published, exists) == EmptyLedger

\* _ensure_topics_file: the document after it
ensure_topics_file(topic_pool, exists) ==
    IF ~exists THEN DEFAULT_TOPIC_POOL ELSE topic_pool

\* _ensure_published_file: the document after it
ensure_published_file(published, exists) ==
    IF ~exists THEN EmptyLedger ELSE published

\* Path.exists()
Exists(file) == files[file] # "absent"

\* TopicManager.__init__: the two documents after the two _ensure calls
TopicManagerInit ==
    /\ catalog' = ensure_topics_file(catalog, Exists("topics_file"))
    /\ ledger' = ensure_published_file(ledger, Exists("published_file"))
    /\ files' = [f \in DOMAIN files |-> IF Exists(f) THEN files[f] ELSE "ok"]

\* ret after a call that returns no topic
Called(op) == [op |-> op, path |-> None, topic |-> None, category |-> None,
               last_index |-> -1]

NoCall == Called("none")

\* run_pipeline's locals before a run, with the record of the run: the
\* steps entered so far in their order (stages), the step whose try block
\* raised (failed) with the exception class (error), and what the run before
\* reported (prev), and the length and the index of the ledger document when
\* the run was entered (before)
NoRun == [dry_run |-> FALSE, config_dry_run |-> FALSE,
          effective_dry_run |-> FALSE, override |-> None, topic |-> None,
          category |-> None, path |-> None, title |-> None, url |-> None,
          stages |-> <<>>, failed |-> None, error |-> None,
          prev |-> [failed |-> None, exit_code |-> -1],
          before |-> [articles |-> 0, last_category_index |-> -1]]

PLIdle ==
    /\ pc = "idle"
    /\ run = NoRun
    /\ exit_code = -1

\* no orchestrated call under way
RTIdle ==
    /\ site = "none"
    /\ max_retries = 0
    /\ base_delay = 0
    /\ attempt = 0
    /\ trail = <<>>
    /\ status = "idle"

\* what a process may find of a document on disk
FileStates == {"ok", "absent", "corrupt"}

\* both documents exist and parse
FilesOk == [topics_file |-> "ok", published_file |-> "ok"]

\* no payload handed to _build_article_result
NoArticle == [fields |-> {}, excerpt |-> <<>>, keywords |-> <<>>,
              state |-> "none",
              result |-> [excerpt |-> <<>>, keywords |-> <<>>]]

AGIdle == article = NoArticle

\* no concurrent runs
NoProcs == <<>>

CCIdle == procs = NoProcs

\* a backend without posts
BEIdle == posts = 0

TMInit ==
    /\ catalog \in Catalogs
    /\ cooldown_count \in Cooldowns
    /\ ledger = EmptyLedger
    /\ files = FilesOk
    /\ ret = NoCall
    /\ PLIdle
    /\ RTIdle
    /\ AGIdle
    /\ CCIdle
    /\ BEIdle

-----------------------------------------------------------------------------
(* Operations of TopicManager *)

\* the effect of one get_next_topic call on the ledger document, and its result
\* mutant: a document that cannot be loaded is taken as empty
GetNextTopicCallLenient ==
    LET topic_pool == IF Loadable("topics_file") THEN catalog ELSE <<>>
        published == IF Loadable("published_file") THEN ledger ELSE EmptyLedger
        r == get_next_topic(topic_pool, published, cooldown_count)
    IN  /\ ledger' = IF r.save THEN PersistSelection(published, r.next_index)
                      ELSE ledger
        /\ ret' = [op |-> "get_next_topic", path |-> r.path,
                   topic |-> r.topic, category |-> r.category,
                   last_index |-> published.last_category_index]

GetNextTopicCall ==
    IF Loadable("topics_file") /\ Loadable("published_file")
    THEN LET r == get_next_topic(catalog, ledger, cooldown_count) IN
         /\ ledger' = IF r.save THEN PersistSelection(ledger, r.next_index)
                       ELSE ledger
         /\ ret' = [op |-> "get_next_topic", path |-> r.path,
                    topic |-> r.topic, category |-> r.category,
                    last_index |-> ledger.last_category_index]
    ELSE \* a loader raises RuntimeError before anything is written
         /\ ledger' = ledger
         /\ ret' = [Called("get_next_topic") EXCEPT !.path = "load_error"]

GetNextTopic ==
    /\ GetNextTopicCall
    /\ UNCHANGED <<catalog, files, cooldown_count, plVars, rtVars, agVars, ccVars, beVars>>

\* log_publication loads the ledger, and the catalog when it has to find
\* the category
LogLoads(category) ==
    /\ Loadable("published_file")
    /\ NotGiven(category) => Loadable("topics_file")

\* the effect of one log_publication call on the ledger document, and how
\* it ends; a loader that raises leaves the document as it is
LogPublicationCall(topic, title, url, category) ==
    IF LogLoads(category)
    THEN /\ ledger' = log_publication(catalog, ledger, topic, title, url, category)
         /\ ret' = [Called("log_publication") EXCEPT !.path = "returned"]
    ELSE /\ ledger' = ledger
         /\ ret' = [Called("log_publication") EXCEPT !.path = "load_error"]

\* the caller records the topic get_next_topic returned, with its category
LogReturned ==
    /\ ret.op = "get_next_topic"
    /\ ret.path \notin {"raise", "load_error"}
    /\ Len(ledger.articles) < MaxLedger
    /\ LogPublicationCall(ret.topic, "title", "url", ret.category)
    /\ UNCHANGED <<catalog, files, cooldown_count, plVars, rtVars, agVars, ccVars, beVars>>

\* log_publication of any topic, category auto-detected
LogOther ==
    /\ Len(ledger.articles) < MaxLedger
    /\ \E topic \in Topics : LogPublicationCall(topic, "title", "url", None)
    /\ UNCHANGED <<catalog, files, cooldown_count, plVars, rtVars, agVars, ccVars, beVars>>

\* the category arguments tried: none, the empty string, a display name of
\* the catalogs, and a string that is no display name
CategoryArgs == {None, "", "B", "Other"}

\* log_publication with any arguments, which ret remembers
LogAny ==
    /\ Len(ledger.articles) < MaxLogged
    /\ \E topic \in Topics, category \in CategoryArgs :
         /\ ledger' = IF LogLoads(category)
                       THEN log_publication(catalog, ledger, topic, "title", "url",
                                            category)
                       ELSE ledger
         /\ ret' = [Called("log_publication") EXCEPT
                       !.path = IF LogLoads(category) THEN "returned"
                                ELSE "load_error",
                       !.topic = topic, !.category = category]
    /\ UNCHANGED <<catalog, files, cooldown_count, plVars, rtVars, agVars, ccVars, beVars>>

\* the topics add_topic is called with: one that differs from "t1" only in
\* letter case, and one that some catalogs hold already
NewTopics == {"T1", "t2"}

AddTopic ==
    /\ \E topic \in NewTopics, category_key \in {"a", "b", "zz"} :
         /\ KeyPos(catalog, category_key) # 0 =>
                Len(catalog[KeyPos(catalog, category_key)].topics) < MaxTopics
         /\ IF Loadable("topics_file")
            THEN /\ catalog' = add_topic(catalog, topic, category_key)
                 /\ ret' = [Called("add_topic") EXCEPT
                               !.topic = topic, !.category = category_key,
                               !.path = IF add_topic_ok(catalog, topic, category_key)
                                        THEN "True" ELSE "False"]
            ELSE /\ catalog' = catalog
                 /\ ret' = [Called("add_topic") EXCEPT
                               !.topic = topic, !.category = category_key,
                               !.path = "load_error"]
    /\ UNCHANGED <<ledger, files, cooldown_count, plVars, rtVars, agVars, ccVars, beVars>>

\* the selector and the ledger writer
Next == GetNextTopic \/ LogReturned \/ LogOther

Spec == TMInit /\ [][Next]_vars

\* the ledger writer with free arguments, over documents that load or do not
LogInit ==
    /\ files \in [{"topics_file", "published_file"} -> {"ok", "corrupt"}]
    /\ catalog \in (IF files.topics_file = "ok" THEN Catalogs ELSE {<<>>})
    /\ cooldown_count = DEFAULT_COOLDOWN
    /\ ledger = EmptyLedger
    /\ ret = NoCall
    /\ PLIdle
    /\ RTIdle
    /\ AGIdle
    /\ CCIdle
    /\ BEIdle

LogNext == LogAny

SpecLog == LogInit /\ [][LogNext]_vars

\* the store with all three mutating operations
StoreNext == GetNextTopic \/ LogReturned \/ AddTopic

SpecStore == TMInit /\ [][StoreNext]_vars

\* TopicManager(topics_file, published_file, cooldown_count)
Construct ==
    /\ TopicManagerInit
    /\ cooldown_count' \in Cooldowns
    /\ ret' = Called("__init__")
    /\ UNCHANGED <<plVars, rtVars, agVars, ccVars, beVars>>

\* a TopicManager has been constructed
Constructed == ret.op # "none"

\* the operations of a constructed TopicManager
SeededGetNextTopic == Constructed /\ GetNextTopic

SeededLogReturned == Constructed /\ LogReturned

\* a ledger document left by earlier use
UsedLedger ==
    [articles |-> <<[topic |-> "t1", title |-> "title", url |-> "url",
                     category |-> "A"]>>,
     last_category_index |-> 0]

\* before the first construction: each document present with content,
\* unreadable, or absent
SeedInit ==
    /\ files \in [{"topics_file", "published_file"} -> FileStates]
    /\ catalog \in (IF files.topics_file = "ok" THEN Catalogs ELSE {<<>>})
    /\ ledger \in (IF files.published_file = "ok"
                    THEN {EmptyLedger, UsedLedger} ELSE {EmptyLedger})
    /\ cooldown_count = DEFAULT_COOLDOWN
    /\ ret = NoCall
    /\ PLIdle
    /\ RTIdle
    /\ AGIdle
    /\ CCIdle
    /\ BEIdle

SeedNext == Construct \/ SeededGetNextTopic \/ SeededLogReturned

SpecSeed == SeedInit /\ [][SeedNext]_vars

-----------------------------------------------------------------------------
(* Two runs on the same documents.  Each load and each save of the ledger  *)
(* document is a step of its own; what a run does between them touches no  *)
(* document.                                                               *)

Runs == {1, 2}

\* a run before its topic selection
NewProc == [pc |-> "select", published |-> EmptyLedger, recent |-> {},
            topic |-> None, category |-> None, logged |-> FALSE]

\* the post URL of a run, which tells its record from the other's
UrlOf(p) == IF p = 1 THEN "url1" ELSE "url2"

\* the record a run logs
RecordOf(p) ==
    [topic |-> procs[p].topic, title |-> "title", url |-> UrlOf(p),
     category |-> procs[p].category]

\* mutant: the articles on disk are kept and those of the document added
save_published_merge(on_disk, published) ==
    [published EXCEPT !.articles =
        on_disk.articles \o
        SubSeq(published.articles,
               (IF Len(published.articles) = 0 THEN 1 ELSE Len(published.articles)),
               Len(published.articles))]

\* _save_published: the file is overwritten with the document
save_published(on_disk, published) == published

raceFrame == <<catalog, files, cooldown_count, ret, plVars, rtVars, agVars, beVars>>

\* get_next_topic: published = self._load_published()
SelectLoad ==
    /\ \E p \in Runs :
         /\ procs[p].pc = "select"
         /\ procs' = [procs EXCEPT ![p].pc = "loaded", ![p].published = ledger]
    /\ UNCHANGED <<ledger, raceFrame>>

\* get_next_topic: recent_topics = self._get_recent_topics(), a second load
SelectRecent ==
    /\ \E p \in Runs :
         /\ procs[p].pc = "loaded"
         /\ procs' = [procs EXCEPT
                         ![p].pc = "recent",
                         ![p].recent = RecentTopics(ledger.articles, cooldown_count)]
    /\ UNCHANGED <<ledger, raceFrame>>

\* get_next_topic: the scan, and on the rotation path the save of the
\* document loaded; then research, generation and publish, which touch no
\* document
SelectSave ==
    /\ \E p \in Runs :
         /\ procs[p].pc = "recent"
         /\ LET r == GetNextTopicWith(catalog, procs[p].published, procs[p].recent)
            IN  /\ ledger' = IF r.save
                              THEN save_published(ledger,
                                      PersistSelection(procs[p].published,
                                                       r.next_index))
                              ELSE ledger
                /\ procs' = [procs EXCEPT
                                ![p].pc = IF r.path = "raise" THEN "failed" ELSE "log",
                                ![p].topic = r.topic,
                                ![p].category = r.category]
    /\ UNCHANGED raceFrame

\* log_publication: published = self._load_published()
LogLoad ==
    /\ \E p \in Runs :
         /\ procs[p].pc = "log"
         /\ procs' = [procs EXCEPT ![p].pc = "log_loaded", ![p].published = ledger]
    /\ UNCHANGED <<ledger, raceFrame>>

\* log_publication: the append to the document loaded, and its save
LogSave ==
    /\ \E p \in Runs :
         /\ procs[p].pc = "log_loaded"
         /\ ledger' = save_published(ledger,
                         [procs[p].published EXCEPT
                             !.articles = Append(@, RecordOf(p))])
         /\ procs' = [procs EXCEPT ![p].pc = "done", ![p].logged = TRUE]
    /\ UNCHANGED raceFrame

RaceNext == SelectLoad \/ SelectRecent \/ SelectSave \/ LogLoad \/ LogSave

\* two runs are started over a catalog and a ledger, new or used
RaceInit ==
    /\ catalog \in Catalogs
    /\ ledger \in {EmptyLedger, UsedLedger}
    /\ cooldown_count = DEFAULT_COOLDOWN
    /\ files = FilesOk
    /\ ret = NoCall
    /\ procs = [p \in Runs |-> NewProc]
    /\ PLIdle
    /\ RTIdle
    /\ AGIdle
    /\ BEIdle

SpecRace == RaceInit /\ [][RaceNext]_vars

-----------------------------------------------------------------------------
(* get_next_topic and log_publication of the returned topic, without end *)

\* the ledger as far as get_next_topic can tell ledgers apart: it reads the
\* oldest record (the fallback), the last cooldown_count records (the recent
\* set) and whether there is any record.  The records between are dropped
\* here so that the unbounded repetition has finitely many states.
Window(published, cooldown) ==
    LET articles == published.articles
        n == Len(articles)
    IN  IF n <= cooldown + 1 THEN published
        ELSE [published EXCEPT !.articles =
                 <<articles[1]>> \o SubSeq(articles, n - cooldown + 1, n)]

\* the next get_next_topic call of the repetition
CoverSelect ==
    /\ ~(ret.op = "get_next_topic" /\ ret.path \notin {"raise", "load_error"})
    /\ GetNextTopic

\* log_publication of the topic and category get_next_topic returned
CoverLog ==
    /\ ret.op = "get_next_topic"
    /\ ret.path \notin {"raise", "load_error"}
    /\ ledger' = Window(log_publication(catalog, ledger, ret.topic, "title",
                                        "url", ret.category), cooldown_count)
    /\ ret' = [Called("log_publication") EXCEPT !.path = "returned"]
    /\ UNCHANGED <<catalog, files, cooldown_count, plVars, rtVars, agVars, ccVars, beVars>>

CoverInit == TMInit /\ cooldown_count >= 1

CoverNext == CoverSelect \/ CoverLog

\* the repetition never stops: the next call is always made
SpecCoverage == CoverInit /\ [][CoverNext]_vars /\ WF_vars(CoverNext)

-----------------------------------------------------------------------------
(* Exception classes of the two collaborators' modules *)

\* the exception classes of article_generator.py: class c is base b or
\* derives from it
ArticleGeneratorIsA(c, b) ==
    \/ c = b
    \/ b = "ArticleGeneratorError" /\
         c \in {"ResearchError", "GenerationError", "RateLimitError", "APIConnectionError"}

\* the exception classes of wordpress_publisher.py: class c is base b or
\* derives from it
WordPressIsA(c, b) ==
    \/ c = b
    \/ b = "WordPressError" /\
         c \in {"WordPressAuthenticationError", "WordPressPermissionError",
                "WordPressRateLimitError", "WordPressServerError",
                "WordPressConnectionError"}

-----------------------------------------------------------------------------
(* run_pipeline *)

SUCCESS == 0
CONFIG_ERROR == 1
TOPIC_ERROR == 2
RESEARCH_ERROR == 3

\* mutant: a generation failure is reported with the code of a research failure
GenerationAsResearchError == RESEARCH_ERROR

GENERATION_ERROR == 4
PUBLISHING_ERROR == 5

\* mutant: the return statement is missing and the run goes on with the
\* step after the one at pc
ExitFallsThrough(code) ==
    /\ pc' = (CASE pc = "config" -> "init"
                [] pc = "init" -> "select"
                [] pc = "select" -> "research"
                [] pc = "research" -> "generate"
                [] pc = "generate" -> "publish"
                [] pc = "publish" -> "log"
                [] OTHER -> "done")
    /\ exit_code' = code

\* run_pipeline returns code
Exit(code) ==
    /\ pc' = "done"
    /\ exit_code' = code

\* a step is entered and its try block completes
Ran(r, stage) == [r EXCEPT !.stages = Append(@, stage)]

\* a step is entered and its try block raises an exception of the class
FailedAt(r, stage, class) ==
    [r EXCEPT !.stages = Append(@, stage), !.failed = stage, !.error = class]

\* run_pipeline is entered with the CLI arguments (an empty --topic counts
\* as none); prev is what the caller remembers of the run before
Start(prev) ==
    /\ Len(ledger.articles) < MaxLedger
    /\ posts < MaxPosts
    /\ \E cli_dry_run \in BOOLEAN, topic_override \in {None, "t2", "T1"} :
         run' = [NoRun EXCEPT !.dry_run = cli_dry_run, !.override = topic_override,
                              !.prev = prev,
                              !.before = [articles |-> Len(ledger.articles),
                                          last_category_index |->
                                              ledger.last_category_index]]
    /\ pc' = "config"
    /\ exit_code' = -1
    /\ ret' = NoCall
    /\ UNCHANGED <<catalog, ledger, files, cooldown_count, rtVars, agVars, ccVars, beVars>>

\* a run starts
StartRun ==
    /\ pc \in {"idle", "done"}
    /\ Start(NoRun.prev)

\* a run starts after another, whose outcome is remembered
Rerun ==
    /\ pc = "done"
    /\ Start([failed |-> run.failed, exit_code |-> exit_code])

\* mutant: only the CLI flag counts
effective_dry_run_cli_only(dry_run, config_dry_run) == dry_run

\* the CLI --dry-run overrides the configuration's DRY_RUN
effective_dry_run(dry_run, config_dry_run) ==
    IF dry_run THEN TRUE ELSE config_dry_run

\* step 1: Config(), then the effective dry-run flag
LoadConfig ==
    /\ pc = "config"
    /\ \/ \E config_dry_run \in BOOLEAN :
            /\ run' = [Ran(run, "config") EXCEPT
                          !.config_dry_run = config_dry_run,
                          !.effective_dry_run =
                              effective_dry_run(run.dry_run, config_dry_run)]
            /\ pc' = "init"
            /\ UNCHANGED exit_code
       \/ \E class \in {"ImportError", "ConfigurationError"} :
            /\ run' = FailedAt(run, "config", class)
            /\ Exit(CONFIG_ERROR)
    /\ UNCHANGED <<tmVars, rtVars, agVars, ccVars, beVars>>

\* step 2: TopicManager(), ArticleGenerator(...), WordPressPublisher(...)
InitModules ==
    /\ pc = "init"
    /\ \/ /\ TopicManagerInit
          /\ run' = Ran(run, "init")
          /\ pc' = "select"
          /\ UNCHANGED exit_code
       \/ \E class \in {"ImportError", "RuntimeError"} :
            /\ run' = FailedAt(run, "init", class)
            /\ Exit(CONFIG_ERROR)
            \* an import fails before TopicManager() is built, a constructor
            \* of one of the other two modules after it
            /\ \/ UNCHANGED <<catalog, ledger, files>>
               \/ class = "RuntimeError" /\ TopicManagerInit
    /\ UNCHANGED <<cooldown_count, ret, rtVars, agVars, ccVars, beVars>>

\* step 3: the override, or topic_manager.get_next_topic()
SelectTopic ==
    /\ pc = "select"
    /\ IF run.override # None
       THEN /\ run' = [Ran(run, "select") EXCEPT
                          !.topic = run.override, !.category = "Custom",
                          !.path = "override"]
            /\ pc' = "research"
            /\ UNCHANGED <<ledger, ret, exit_code>>
       ELSE /\ GetNextTopicCall
            /\ IF ret'.path \in {"raise", "load_error"}
               THEN /\ run' = FailedAt(run, "select",
                                       IF ret'.path = "raise" THEN "IndexError"
                                       ELSE "RuntimeError")
                    /\ Exit(TOPIC_ERROR)
               ELSE /\ run' = [Ran(run, "select") EXCEPT
                                  !.topic = ret'.topic,
                                  !.category = ret'.category,
                                  !.path = ret'.path]
                    /\ pc' = "research"
                    /\ UNCHANGED exit_code
    /\ UNCHANGED <<catalog, files, cooldown_count, rtVars, agVars, ccVars, beVars>>

\* mutant: the except Exception clause of step 4 is missing; what escapes
\* run_pipeline is reported by main() as 1
research_exit_uncaught(class) ==
    IF ArticleGeneratorIsA(class, "ResearchError") THEN RESEARCH_ERROR
    ELSE CONFIG_ERROR

\* the except clauses of step 4: ResearchError, then Exception
research_exit(class) ==
    IF ArticleGeneratorIsA(class, "ResearchError") THEN RESEARCH_ERROR
    ELSE RESEARCH_ERROR

\* the except clauses of step 5: GenerationError, then Exception
generate_exit(class) ==
    IF ArticleGeneratorIsA(class, "GenerationError") THEN GENERATION_ERROR
    ELSE GENERATION_ERROR

\* the except clauses of step 6: WordPressAuthenticationError,
\* WordPressPermissionError, WordPressConnectionError, WordPressError, Exception
publish_exit(class) ==
    IF WordPressIsA(class, "WordPressAuthenticationError") THEN PUBLISHING_ERROR
    ELSE IF WordPressIsA(class, "WordPressPermissionError") THEN PUBLISHING_ERROR
    ELSE IF WordPressIsA(class, "WordPressConnectionError") THEN PUBLISHING_ERROR
    ELSE IF WordPressIsA(class, "WordPressError") THEN PUBLISHING_ERROR
    ELSE PUBLISHING_ERROR

\* what research_topic and generate_article raise
ArticleGeneratorErrors(own) == {own, "RateLimitError", "APIConnectionError"}

\* what publish_post raises: the classes of _request_with_retry, or KeyError
\* on a response without the expected keys
PublishErrors ==
    {"WordPressAuthenticationError", "WordPressPermissionError",
     "WordPressRateLimitError", "WordPressServerError",
     "WordPressConnectionError", "WordPressError", "AttributeError",
     "KeyError"}

\* step 4: article_generator.research_topic(topic)
Research ==
    /\ pc = "research"
    /\ \/ /\ run' = Ran(run, "research")
          /\ pc' = "generate"
          /\ UNCHANGED exit_code
       \/ \E class \in ArticleGeneratorErrors("ResearchError") :
            /\ run' = FailedAt(run, "research", class)
            /\ Exit(research_exit(class))
    /\ UNCHANGED <<tmVars, rtVars, agVars, ccVars, beVars>>

\* step 5: article_generator.generate_article(topic, research_data)
Generate ==
    /\ pc = "generate"
    /\ \/ /\ run' = [Ran(run, "generate") EXCEPT !.title = "title"]
          /\ pc' = "publish"
          /\ UNCHANGED exit_code
       \/ \E class \in ArticleGeneratorErrors("GenerationError") :
            /\ run' = FailedAt(run, "generate", class)
            /\ Exit(generate_exit(class))
    /\ UNCHANGED <<tmVars, rtVars, agVars, ccVars, beVars>>

\* the default of the publisher's max_retries parameter, with which step 2
\* builds it
DEFAULT_MAX_RETRIES == 3

\* the posts a publish_post call may have created when it returns (ok) or
\* raises: one per attempt the backend applied
PostsCreated(ok) ==
    {n \in (IF ok THEN 1 ELSE 0)..DEFAULT_MAX_RETRIES : posts + n <= MaxPosts}

\* step 6: the dry-run return, or wordpress_publisher.publish_post(...)
Publish ==
    /\ pc = "publish"
    /\ IF run.effective_dry_run
       THEN Exit(SUCCESS) /\ UNCHANGED <<run, posts>>
       ELSE \/ /\ run' = [Ran(run, "publish") EXCEPT !.url = "url"]
               /\ pc' = "log"
               /\ \E n \in PostsCreated(TRUE) : posts' = posts + n
               /\ UNCHANGED exit_code
            \/ \E class \in PublishErrors :
                 /\ run' = FailedAt(run, "publish", class)
                 /\ Exit(publish_exit(class))
                 /\ \E n \in PostsCreated(FALSE) : posts' = posts + n
    /\ UNCHANGED <<tmVars, rtVars, agVars, ccVars>>

\* mutant: the category of step 3 is passed on as it is
LoggedCategoryAsIs == run.category

\* the category argument of step 7: category if category != "Custom" else None
LoggedCategory == IF run.category # "Custom" THEN run.category ELSE None

\* mutant: a failure of the ledger write is reported as a publishing error
LogPublicationFatal ==
    /\ pc = "log"
    /\ \/ /\ LogLoads(IF run.category # "Custom" THEN run.category ELSE None)
          /\ ledger' = log_publication(catalog, ledger, run.topic, run.title, run.url,
                           IF run.category # "Custom" THEN run.category ELSE None)
          /\ ret' = [Called("log_publication") EXCEPT !.path = "returned"]
          /\ run' = Ran(run, "log")
          /\ Exit(SUCCESS)
       \/ /\ run' = FailedAt(run, "log", "RuntimeError")
          /\ Exit(PUBLISHING_ERROR)
          /\ UNCHANGED <<ledger, ret>>
    /\ UNCHANGED <<catalog, files, cooldown_count, rtVars, agVars, ccVars, beVars>>

\* step 7: topic_manager.log_publication(...); a failure is only logged
LogPublication ==
    /\ pc = "log"
    /\ \/ /\ LogLoads(LoggedCategory)
          /\ ledger' = log_publication(catalog, ledger, run.topic, run.title, run.url,
                                       LoggedCategory)
          /\ ret' = [Called("log_publication") EXCEPT !.path = "returned"]
          /\ run' = Ran(run, "log")
       \/ /\ run' = FailedAt(run, "log", "RuntimeError")
          /\ UNCHANGED <<ledger, ret>>
    /\ Exit(SUCCESS)
    /\ UNCHANGED <<catalog, files, cooldown_count, rtVars, agVars, ccVars, beVars>>

PipelineNext ==
    \/ StartRun \/ LoadConfig \/ InitModules \/ SelectTopic
    \/ Research \/ Generate \/ Publish \/ LogPublication

\* main() reports a KeyboardInterrupt that escapes run_pipeline with 1
INTERRUPTED == 1

\* what the step in flight has done to the documents and the backend when
\* the interrupt arrives: nothing yet, all of it, or, for a write of
\* published.json that was cut, a file that no longer parses
InFlight ==
    CASE pc = "init" ->
            /\ UNCHANGED <<catalog, ledger, files>> \/ TopicManagerInit
            /\ UNCHANGED posts
      [] pc = "select" /\ run.override = None ->
            LET r == get_next_topic(catalog, ledger, cooldown_count)
                saves == Loadable("topics_file") /\ Loadable("published_file")
                         /\ r.save
            IN  /\ \/ UNCHANGED <<ledger, files>>
                   \/ /\ saves
                      /\ ledger' = PersistSelection(ledger, r.next_index)
                      /\ UNCHANGED files
                   \/ /\ saves
                      /\ files' = [files EXCEPT !.published_file = "corrupt"]
                      /\ UNCHANGED ledger
                /\ UNCHANGED <<catalog, posts>>
      [] pc = "publish" /\ ~run.effective_dry_run ->
            /\ \E n \in PostsCreated(FALSE) : posts' = posts + n
            /\ UNCHANGED <<catalog, ledger, files>>
      [] pc = "log" ->
            /\ \/ UNCHANGED <<ledger, files>>
               \/ /\ LogLoads(LoggedCategory)
                  /\ ledger' = log_publication(catalog, ledger, run.topic,
                                               run.title, run.url, LoggedCategory)
                  /\ UNCHANGED files
               \/ /\ LogLoads(LoggedCategory)
                  /\ files' = [files EXCEPT !.published_file = "corrupt"]
                  /\ UNCHANGED ledger
            /\ UNCHANGED <<catalog, posts>>
      [] OTHER -> UNCHANGED <<catalog, ledger, files, posts>>

\* mutant: the handler puts the rotation index back to what it was when the
\* run began
InterruptRollsBack ==
    /\ pc \notin {"idle", "done"}
    /\ run' = FailedAt(run, pc, "KeyboardInterrupt")
    /\ pc' = "done"
    /\ exit_code' = INTERRUPTED
    /\ ledger' = [ledger EXCEPT
                     !.last_category_index = run.before.last_category_index]
    /\ UNCHANGED <<catalog, files, posts, cooldown_count, ret, rtVars, agVars, ccVars>>

\* KeyboardInterrupt is raised in the step in flight; no except clause of
\* run_pipeline catches it, main() logs it and returns 1
Interrupt ==
    /\ pc \notin {"idle", "done"}
    /\ run' = FailedAt(run, pc, "KeyboardInterrupt")
    /\ pc' = "done"
    /\ exit_code' = INTERRUPTED
    /\ InFlight
    /\ UNCHANGED <<cooldown_count, ret, rtVars, agVars, ccVars>>

\* runs that an interrupt may end
InterruptNext ==
    \/ StartRun \/ LoadConfig \/ InitModules \/ SelectTopic
    \/ Research \/ Generate \/ Publish \/ LogPublication \/ Interrupt

\* run_pipeline builds TopicManager() with the default cooldown; of a
\* document that is absent or cannot be loaded the variable holds no content
PipelineInit ==
    /\ files \in [{"topics_file", "published_file"} -> FileStates]
    /\ catalog \in (IF files.topics_file = "ok" THEN Catalogs ELSE {<<>>})
    /\ cooldown_count = DEFAULT_COOLDOWN
    /\ ledger = EmptyLedger
    /\ ret = NoCall
    /\ PLIdle
    /\ RTIdle
    /\ AGIdle
    /\ CCIdle
    /\ BEIdle

SpecPipeline == PipelineInit /\ [][PipelineNext]_vars

SpecInterrupt == PipelineInit /\ [][InterruptNext]_vars

\* the catalogs of the repeated runs: none, and one with topics
RerunCatalogs ==
    {<<>>, <<Category("a", "A", <<"t1", "t2">>), Category("b", "B", <<"t3">>)>>}

RerunInit ==
    /\ catalog \in RerunCatalogs
    /\ cooldown_count = DEFAULT_COOLDOWN
    /\ ledger = EmptyLedger
    /\ files = FilesOk
    /\ ret = NoCall
    /\ PLIdle
    /\ RTIdle
    /\ AGIdle
    /\ CCIdle
    /\ BEIdle

FirstRun == pc = "idle" /\ StartRun

\* run after run, each remembering the outcome of the one before
RerunNext ==
    \/ FirstRun \/ Rerun \/ LoadConfig \/ InitModules \/ SelectTopic
    \/ Research \/ Generate \/ Publish \/ LogPublication

SpecReruns == RerunInit /\ [][RerunNext]_vars

-----------------------------------------------------------------------------
(* The three orchestrated calls.  One action is one pass of the for loop:   *)
(* the external call, the classification of its answer, and the return,    *)
(* the raise, or the sleep before the next pass.                           *)

\* what one pass of a loop does: the loop goes on ("running"), returns, or
\* raises the named exception class; slept and delay are the time.sleep call
Pass(st, slept, delay) == [status |-> st, slept |-> slept, delay |-> delay]

Continue(delay) == Pass("running", TRUE, delay)

ContinueAtOnce == Pass("running", FALSE, 0)

Return == Pass("returned", FALSE, 0)

Raise(class) == Pass(class, FALSE, 0)

(* research_topic *)

\* what the Tavily client does: it answers, or raises an exception whose
\* lowercased message contains some of the words the code looks for
ResearchWords == {"rate", "limit", "connect", "timeout"}

ResearchSignals ==
    {[kind |-> "ok", words |-> {}]}
    \cup {[kind |-> "exception", words |-> w] : w \in SUBSET ResearchWords}

\* mutant: an exception of no known kind is re-raised as it came
research_pass_reraise(signal, k, retries) ==
    IF signal.kind = "ok" THEN Return
    ELSE IF "rate" \in signal.words /\ "limit" \in signal.words
    THEN (IF k < retries THEN Continue(2 ^ k) ELSE Raise("RateLimitError"))
    ELSE IF "connect" \in signal.words \/ "timeout" \in signal.words
    THEN (IF k < retries THEN Continue(2 ^ k) ELSE Raise("APIConnectionError"))
    ELSE Raise("Exception")

\* mutant: an exception of no known kind is retried like a connection error
research_pass_retry_other(signal, k, retries) ==
    IF signal.kind = "ok" THEN Return
    ELSE IF "rate" \in signal.words /\ "limit" \in signal.words
    THEN (IF k < retries THEN Continue(2 ^ k) ELSE Raise("RateLimitError"))
    ELSE IF "connect" \in signal.words \/ "timeout" \in signal.words
    THEN (IF k < retries THEN Continue(2 ^ k) ELSE Raise("APIConnectionError"))
    ELSE (IF k < retries THEN Continue(2 ^ k) ELSE Raise("ResearchError"))

\* one pass of research_topic's loop
research_pass(signal, k, retries) ==
    IF signal.kind = "ok" THEN Return
    ELSE IF "rate" \in signal.words /\ "limit" \in signal.words
    THEN (IF k < retries THEN Continue(2 ^ k) ELSE Raise("RateLimitError"))
    ELSE IF "connect" \in signal.words \/ "timeout" \in signal.words
    THEN (IF k < retries THEN Continue(2 ^ k) ELSE Raise("APIConnectionError"))
    ELSE Raise("ResearchError")

(* generate_article *)

REQUIRED_FIELDS == {"title", "content", "excerpt", "keywords"}

\* what the Anthropic client does: it raises one of its exception classes,
\* or answers with a text that parses as JSON or not and, parsed, lacks
\* some of the required fields
GenerateSignals ==
    {[kind |-> "exception", class |-> c, parses |-> FALSE, missing |-> {}] :
        c \in {"RateLimitError", "APIConnectionError", "APITimeoutError",
               "InternalServerError", "Exception"}}
    \cup {[kind |-> "response", class |-> "none", parses |-> FALSE, missing |-> {}]}
    \cup {[kind |-> "response", class |-> "none", parses |-> TRUE, missing |-> m] :
             m \in {{}, {"keywords"}, {"title", "excerpt"}}}

\* the anthropic exception classes: class c is base b or derives from it
AnthropicIsA(c, b) ==
    \/ c = b
    \/ b = "Exception"
    \/ b = "APIStatusError" /\ c \in {"RateLimitError", "InternalServerError"}
    \/ b = "APIConnectionError" /\ c = "APITimeoutError"

\* what the try block of generate_article raises, "none" when it returns:
\* the client's exception, json.JSONDecodeError from _parse_article_response,
\* or GenerationError from _build_article_result
generate_try(signal) ==
    IF signal.kind = "exception" THEN signal.class
    ELSE IF ~signal.parses THEN "JSONDecodeError"
    ELSE IF signal.missing # {} THEN "GenerationError"
    ELSE "none"

\* mutant: after a rate-limit failure generation waits as research does
generate_pass_research_delay(signal, k, retries) ==
    LET e == generate_try(signal) IN
    IF e = "none" THEN Return
    ELSE IF AnthropicIsA(e, "RateLimitError")
    THEN (IF k < retries THEN Continue(2 ^ k) ELSE Raise("RateLimitError"))
    ELSE IF AnthropicIsA(e, "APIConnectionError")
    THEN (IF k < retries THEN Continue(2 ^ k) ELSE Raise("APIConnectionError"))
    ELSE IF AnthropicIsA(e, "APIStatusError")
    THEN Raise("GenerationError")
    ELSE IF e = "JSONDecodeError"
    THEN (IF k < retries THEN ContinueAtOnce ELSE Raise("GenerationError"))
    ELSE Raise("GenerationError")

\* one pass of generate_article's loop: the except clauses in their order
generate_pass(signal, k, retries) ==
    LET e == generate_try(signal) IN
    IF e = "none" THEN Return
    ELSE IF AnthropicIsA(e, "RateLimitError")
    THEN (IF k < retries THEN Continue(2 ^ k * 5) ELSE Raise("RateLimitError"))
    ELSE IF AnthropicIsA(e, "APIConnectionError")
    THEN (IF k < retries THEN Continue(2 ^ k) ELSE Raise("APIConnectionError"))
    ELSE IF AnthropicIsA(e, "APIStatusError")
    THEN Raise("GenerationError")
    ELSE IF e = "JSONDecodeError"
    THEN (IF k < retries THEN ContinueAtOnce ELSE Raise("GenerationError"))
    ELSE Raise("GenerationError")

(* _request_with_retry *)

StatusCodes == {100, 200, 201, 204, 302, 400, 401, 403, 404, 429, 499, 500,
                503, 599, 600}

\* values of the Retry-After header: absent, digits, or an HTTP date
RetryAfterHeaders == {"absent", "0", "7", "Wed, 21 Oct 2026 07:28:00 GMT"}

\* str.isdigit() and int() on the header values
IsDigit(h) == h \in {"0", "7"}

IntOf(h) == IF h = "0" THEN 0 ELSE 7

\* what requests.request does: a response, or one of its exception classes.
\* Of the body of a response: json = FALSE when it is not JSON, object =
\* FALSE when it is not a JSON object (a list, a string, null)
PublishSignals ==
    {[kind |-> "response", class |-> "none", status_code |-> c,
      retry_after |-> "absent", json |-> TRUE, object |-> TRUE] :
        c \in StatusCodes}
    \cup {[kind |-> "response", class |-> "none", status_code |-> c,
           retry_after |-> "absent", json |-> FALSE, object |-> FALSE] :
             c \in {201, 404}}
    \cup {[kind |-> "response", class |-> "none", status_code |-> c,
           retry_after |-> "absent", json |-> TRUE, object |-> FALSE] :
             c \in {201, 404}}
    \cup {[kind |-> "response", class |-> "none", status_code |-> 429,
           retry_after |-> h, json |-> TRUE, object |-> TRUE] :
             h \in RetryAfterHeaders}
    \cup {[kind |-> "exception", class |-> c, status_code |-> 0,
           retry_after |-> "absent", json |-> TRUE, object |-> TRUE] :
             c \in {"ReadTimeout", "ConnectTimeout", "ConnectionError",
                    "RequestException"}}

\* the requests exception classes: class c is base b or derives from it
\* (JSONDecodeError is what response.json() raises on a body that is not JSON)
RequestsIsA(c, b) ==
    \/ c = b
    \/ b = "RequestException" /\
         c \in {"Timeout", "ReadTimeout", "ConnectTimeout", "ConnectionError",
                "JSONDecodeError"}
    \/ b = "ValueError" /\ c = "JSONDecodeError"
    \/ b = "Timeout" /\ c \in {"ReadTimeout", "ConnectTimeout"}
    \/ b = "ConnectionError" /\ c = "ConnectTimeout"

\* an exception of the publisher with its retry_after attribute
\* (has_retry_after = FALSE is Python's None)
WPError(class, has_retry_after, seconds) ==
    [class |-> class, has_retry_after |-> has_retry_after, retry_after |-> seconds]

\* mutant: 401 and 403 are classed with the server errors
handle_response_auth_transient(response) ==
    LET status_code == response.status_code IN
    IF status_code = 201 \/ status_code = 200
    THEN (IF response.json THEN WPError("none", FALSE, 0)
          ELSE WPError("JSONDecodeError", FALSE, 0))
    ELSE IF status_code = 429
    THEN (IF response.retry_after # "absent" /\ IsDigit(response.retry_after)
          THEN WPError("WordPressRateLimitError", TRUE, IntOf(response.retry_after))
          ELSE WPError("WordPressRateLimitError", FALSE, 0))
    ELSE IF 400 <= status_code /\ status_code < 600 /\ status_code # 404
    THEN WPError("WordPressServerError", FALSE, 0)
    ELSE IF response.json /\ ~response.object
    THEN WPError("AttributeError", FALSE, 0)
    ELSE WPError("WordPressError", FALSE, 0)

\* _handle_response: class "none" when it returns the parsed body
handle_response(response) ==
    LET status_code == response.status_code IN
    IF status_code = 201 \/ status_code = 200
    THEN (IF response.json THEN WPError("none", FALSE, 0)
          ELSE WPError("JSONDecodeError", FALSE, 0))
    ELSE IF status_code = 401 THEN WPError("WordPressAuthenticationError", FALSE, 0)
    ELSE IF status_code = 403 THEN WPError("WordPressPermissionError", FALSE, 0)
    ELSE IF status_code = 429
    THEN (IF response.retry_after # "absent" /\ IsDigit(response.retry_after)
          THEN WPError("WordPressRateLimitError", TRUE, IntOf(response.retry_after))
          ELSE WPError("WordPressRateLimitError", FALSE, 0))
    ELSE IF 500 <= status_code /\ status_code < 600
    THEN WPError("WordPressServerError", FALSE, 0)
    ELSE IF response.json /\ ~response.object
    THEN \* error_data.get on what is not a dict
         WPError("AttributeError", FALSE, 0)
    ELSE \* with the body's message, or on ValueError with its text
         WPError("WordPressError", FALSE, 0)

\* the truth value of e.retry_after: None and 0 are false
RetryAfterTruthy(e) == e.has_retry_after /\ e.retry_after # 0

\* delay = self.base_delay * (2 ** (attempt - 1))
Backoff(base, k) == base * 2 ^ (k - 1)

\* the delay of the except (WordPressRateLimitError, WordPressServerError) clause
TransientDelay(e, base, k) ==
    IF e.class = "WordPressRateLimitError" /\ RetryAfterTruthy(e)
    THEN e.retry_after
    ELSE Backoff(base, k)

\* mutant: the ConnectionError clause stands before the Timeout clause
request_pass_connection_first(signal, k, retries, base) ==
    IF signal.kind = "response"
    THEN LET e == handle_response(signal) IN
         IF e.class = "none" THEN Return
         ELSE IF e.class \in {"WordPressRateLimitError", "WordPressServerError"}
         THEN (IF k < retries THEN Continue(TransientDelay(e, base, k))
               ELSE Raise(e.class))
         ELSE IF WordPressIsA(e.class, "WordPressError") THEN Raise(e.class)
         ELSE IF RequestsIsA(e.class, "RequestException") THEN Raise("WordPressError")
         ELSE Raise(e.class)
    ELSE IF RequestsIsA(signal.class, "ConnectionError")
    THEN Raise("WordPressConnectionError")
    ELSE IF RequestsIsA(signal.class, "Timeout")
    THEN (IF k < retries THEN Continue(Backoff(base, k))
          ELSE Raise("WordPressConnectionError"))
    ELSE Raise("WordPressError")

\* one pass of _request_with_retry's loop: the except clauses in their order
request_pass(signal, k, retries, base) ==
    IF signal.kind = "response"
    THEN LET e == handle_response(signal) IN
         IF e.class = "none" THEN Return
         ELSE IF e.class \in {"WordPressRateLimitError", "WordPressServerError"}
         THEN (IF k < retries THEN Continue(TransientDelay(e, base, k))
               ELSE Raise(e.class))
         ELSE IF WordPressIsA(e.class, "WordPressError") THEN Raise(e.class)
         ELSE IF RequestsIsA(e.class, "RequestException") THEN Raise("WordPressError")
         ELSE Raise(e.class)
    ELSE IF RequestsIsA(signal.class, "Timeout")
    THEN (IF k < retries THEN Continue(Backoff(base, k))
          ELSE Raise("WordPressConnectionError"))
    ELSE IF RequestsIsA(signal.class, "ConnectionError")
    THEN Raise("WordPressConnectionError")
    ELSE Raise("WordPressError")

(* the loops *)

Sites == {"research", "generate", "publish"}

\* the default of the publisher's base_delay parameter
DEFAULT_BASE_DELAY == 1

BaseDelays == {1, 3}

\* a call starts: for attempt in range(1, self.max_retries + 1)
RTInit ==
    /\ site \in Sites
    /\ max_retries \in 1..MaxRetries
    /\ base_delay \in (IF site = "publish" THEN BaseDelays ELSE {0})
    /\ attempt = 1
    /\ trail = <<>>
    /\ status = "running"

\* the bookkeeping of one pass
Step(signal, p) ==
    /\ trail' = Append(trail, [signal |-> signal, slept |-> p.slept, delay |-> p.delay])
    /\ status' = p.status
    /\ attempt' = IF p.status = "running" THEN attempt + 1 ELSE attempt
    /\ UNCHANGED <<site, max_retries, base_delay, tmVars, plVars, agVars, ccVars>>

ResearchAttempt ==
    /\ site = "research" /\ status = "running"
    /\ \E signal \in ResearchSignals :
         Step(signal, research_pass(signal, attempt, max_retries))
    /\ UNCHANGED beVars

GenerateAttempt ==
    /\ site = "generate" /\ status = "running"
    /\ \E signal \in GenerateSignals :
         Step(signal, generate_pass(signal, attempt, max_retries))
    /\ UNCHANGED beVars

\* whether the backend has created the post when the POST ends this way: it
\* has on a success; it may or may not have when the answer is a 5xx (a
\* gateway in front of it), or is lost to a read timeout or a broken
\* connection; it has not when it refused the request or was never reached
BackendApplies(signal) ==
    IF signal.kind = "response"
    THEN (IF signal.status_code \in {200, 201} THEN {TRUE}
          ELSE IF signal.status_code \in 500..599 THEN BOOLEAN
          ELSE {FALSE})
    ELSE (IF signal.class \in {"ReadTimeout", "ConnectionError"} THEN BOOLEAN
          ELSE {FALSE})

\* publish_post: one pass of the loop of _request_with_retry("POST", ...)
PublishAttempt ==
    /\ site = "publish" /\ status = "running"
    /\ \E signal \in PublishSignals :
         /\ Step(signal, request_pass(signal, attempt, max_retries, base_delay))
         /\ \E applied \in BackendApplies(signal) :
                posts' = IF applied THEN posts + 1 ELSE posts

RetryNext == ResearchAttempt \/ GenerateAttempt \/ PublishAttempt

RetryInit ==
    /\ catalog = <<>>
    /\ cooldown_count = DEFAULT_COOLDOWN
    /\ ledger = EmptyLedger
    /\ files = FilesOk
    /\ ret = NoCall
    /\ PLIdle
    /\ RTInit
    /\ AGIdle
    /\ CCIdle
    /\ BEIdle

SpecRetry == RetryInit /\ [][RetryNext]_vars

-----------------------------------------------------------------------------
(* The loops inside the pipeline: steps 4, 5 and 6 of run_pipeline make      *)
(* their call through the loop of its site, one pass after the other.       *)

\* the step at pc calls research_topic, generate_article or publish_post
CallsOut ==
    \/ pc \in {"research", "generate"}
    \/ pc = "publish" /\ ~run.effective_dry_run

\* the call of the step begins; step 2 built ArticleGenerator and
\* WordPressPublisher with their default max_retries and base_delay
BeginCall ==
    /\ CallsOut
    /\ status = "idle"
    /\ site' = pc
    /\ max_retries' = DEFAULT_MAX_RETRIES
    /\ base_delay' = IF pc = "publish" THEN DEFAULT_BASE_DELAY ELSE 0
    /\ attempt' = 1
    /\ trail' = <<>>
    /\ status' = "running"
    /\ UNCHANGED <<tmVars, plVars, agVars, ccVars, beVars>>

\* the code run_pipeline returns for an exception of the step at pc
stage_exit(class) ==
    IF pc = "research" THEN research_exit(class)
    ELSE IF pc = "generate" THEN generate_exit(class)
    ELSE publish_exit(class)

\* the call of the step has returned or raised: the step goes on to the
\* next one or returns its exit code.  publish_post raises KeyError or
\* TypeError itself when the body lacks the keys it reads
EndCall ==
    /\ CallsOut
    /\ site = pc
    /\ status \notin {"idle", "running"}
    /\ IF status = "returned"
       THEN \/ /\ run' = [Ran(run, pc) EXCEPT
                             !.title = IF pc = "research" THEN @ ELSE "title",
                             !.url = IF pc = "publish" THEN "url" ELSE @]
               /\ pc' = (IF pc = "research" THEN "generate"
                         ELSE IF pc = "generate" THEN "publish" ELSE "log")
               /\ UNCHANGED exit_code
            \/ /\ pc = "publish"
               /\ run' = FailedAt(run, pc, "KeyError")
               /\ Exit(stage_exit("KeyError"))
       ELSE /\ run' = FailedAt(run, pc, status)
            /\ Exit(stage_exit(status))
    /\ site' = "none"
    /\ max_retries' = 0
    /\ base_delay' = 0
    /\ attempt' = 0
    /\ trail' = <<>>
    /\ status' = "idle"
    /\ UNCHANGED <<tmVars, agVars, ccVars, beVars>>

\* step 6 of a dry run: the preview and the return
PublishDryRun == run.effective_dry_run /\ Publish

\* one run of the pipeline, not beside a call made on its own
CallsRun == site = "none" /\ FirstRun

\* a call made on its own, or one run of the pipeline from present documents
CallsInit == RetryInit \/ RerunInit

CallsNext ==
    \/ ResearchAttempt \/ GenerateAttempt \/ PublishAttempt
    \/ CallsRun \/ LoadConfig \/ InitModules \/ SelectTopic
    \/ BeginCall \/ EndCall \/ PublishDryRun \/ LogPublication

\* the process is sequential and every step of it ends: requests are made
\* with a timeout, the clients return or raise, the sleeps are finite
SpecCalls == CallsInit /\ [][CallsNext]_vars /\ WF_vars(CallsNext)

-----------------------------------------------------------------------------
(* _build_article_result.  A string is the sequence of its characters.     *)

EXCERPT_MIN_LENGTH == 150
EXCERPT_MAX_LENGTH == 160

\* s[:stop] for stop >= 0
PySliceTo(s, stop) == SubSeq(s, 1, IF stop > Len(s) THEN Len(s) ELSE stop)

\* the string "..."
Ellipsis == <<".", ".", ".">>

\* mutant: the cut is made at the maximum length, before the dots are added
build_excerpt_cut_at_max(excerpt) ==
    IF Len(excerpt) < EXCERPT_MIN_LENGTH THEN excerpt
    ELSE IF Len(excerpt) > EXCERPT_MAX_LENGTH
    THEN PySliceTo(excerpt, EXCERPT_MAX_LENGTH) \o Ellipsis
    ELSE excerpt

\* the excerpt of the result: too short is only logged, too long is cut
build_excerpt(excerpt) ==
    IF Len(excerpt) < EXCERPT_MIN_LENGTH THEN excerpt
    ELSE IF Len(excerpt) > EXCERPT_MAX_LENGTH
    THEN PySliceTo(excerpt, EXCERPT_MAX_LENGTH - 3) \o Ellipsis
    ELSE excerpt

\* mutant: the keywords are compared as they are written
build_keywords_exact_case(keywords) ==
    IF "parga" \notin Range(keywords) THEN <<"parga">> \o keywords ELSE keywords

\* the keywords of the result: keywords.insert(0, "parga") unless a
\* lowercased keyword is "parga"
build_keywords(keywords) ==
    LET keywords_lower == [i \in 1..Len(keywords) |-> Lower(keywords[i])]
    IN  IF "parga" \notin Range(keywords_lower)
        THEN <<"parga">> \o keywords
        ELSE keywords

\* _build_article_result(article_data): GenerationError for a missing
\* field, else the ArticleResult (excerpt and keywords of it)
BuildArticleResult ==
    /\ article.state = "payload"
    /\ article' =
          IF ~(REQUIRED_FIELDS \subseteq article.fields)
          THEN [article EXCEPT !.state = "GenerationError"]
          ELSE [article EXCEPT
                   !.state = "returned",
                   !.result = [excerpt |-> build_excerpt(article.excerpt),
                               keywords |-> build_keywords(article.keywords)]]
    /\ UNCHANGED <<tmVars, plVars, rtVars, ccVars, beVars>>

\* the characters of the excerpts: letters in turn, or dots only
Letters == <<"a", "b", "c", "d", "e", "f", "g">>

ExcerptOf(n, dots) ==
    [i \in 1..n |-> IF dots THEN "." ELSE Letters[(i % Len(Letters)) + 1]]

\* the excerpt lengths tried: the shortest, and those around the two limits
ExcerptLengths == (0..2) \cup ((EXCERPT_MIN_LENGTH - 2)..MaxExcerpt)

Excerpts == {ExcerptOf(n, dots) : n \in ExcerptLengths, dots \in BOOLEAN}

\* keyword lists of up to MaxKeywords keywords
KeywordLists == UNION {[1..n -> Keywords] : n \in 0..MaxKeywords}

\* the payloads: complete ones with any excerpt and keywords, and ones
\* that lack a required field
Payloads ==
    {[NoArticle EXCEPT !.fields = REQUIRED_FIELDS, !.excerpt = e,
                       !.keywords = k, !.state = "payload"] :
        e \in Excerpts, k \in KeywordLists}
    \cup {[NoArticle EXCEPT !.fields = REQUIRED_FIELDS \ {f},
                            !.state = "payload"] : f \in REQUIRED_FIELDS}

ArticleInit ==
    /\ article \in Payloads
    /\ catalog = <<>>
    /\ cooldown_count = DEFAULT_COOLDOWN
    /\ ledger = EmptyLedger
    /\ files = FilesOk
    /\ ret = NoCall
    /\ PLIdle
    /\ RTIdle
    /\ CCIdle
    /\ BEIdle

ArticleNext == BuildArticleResult

SpecArticle == ArticleInit /\ [][ArticleNext]_vars

-----------------------------------------------------------------------------
(* The selector's vocabulary, as the specification words it *)

\* the last min(n, Len(articles)) ledger entries
LastEntries(articles, n) ==
    LET k == IF n < Len(articles) THEN n ELSE Len(articles)
    IN  SubSeq(articles, Len(articles) - k + 1, Len(articles))

\* the lowercase topic strings of the last n ledger entries
WindowTopics(articles, n) == {Lower(a.topic) : a \in Range(LastEntries(articles, n))}

\* category c has a topic whose lowercase form is not in the set
HasEligible(c, recent_topics) ==
    \E t \in Range(c.topics) : Lower(t) \notin recent_topics

\* the last call was get_next_topic and it returned
Returned == ret.op = "get_next_topic" /\ ret.path \notin {"raise", "load_error"}

\* the recent set get_next_topic works with in the current state
Recent == RecentTopics(ledger.articles, cooldown_count)

-----------------------------------------------------------------------------
(* Claims about the selector *)

\* C1 (No-repeat-within-cooldown): when the ledger has at least
\* cooldown_count entries and some catalog topic's lowercase form is absent
\* from the last cooldown_count entries, get_next_topic returns a topic
\* whose lowercase form is not the topic of any of those entries.
C1_NoRepeatWithinCooldown ==
    ( /\ ret.op = "get_next_topic"
      /\ Len(ledger.articles) >= cooldown_count
      /\ \E i \in 1..Len(catalog) :
            HasEligible(catalog[i], WindowTopics(ledger.articles, cooldown_count)) )
    => ( /\ ret.path # "raise"
         /\ Lower(ret.topic) \notin WindowTopics(ledger.articles, cooldown_count) )

\* a selection made while another topic of the catalog sits in a full window
C1_Witness ==
    /\ Returned
    /\ cooldown_count >= 1
    /\ Len(ledger.articles) >= cooldown_count
    /\ \E i \in 1..Len(catalog) : \E t \in Range(catalog[i].topics) :
          Lower(t) \in WindowTopics(ledger.articles, cooldown_count)
    /\ Lower(ret.topic) \notin WindowTopics(ledger.articles, cooldown_count)

\* C2 (Rotation monotonicity): a get_next_topic call that finds some category
\* with an eligible topic sets last_category_index to (previous + 1) mod n
\* when that category has an eligible topic, and otherwise to the first index
\* after it in cyclic order whose category has one; the categories passed
\* over have all their topics in the recent set.
C2_RotationMonotonic ==
    [][ GetNextTopic =>
        LET n == Len(catalog)
            last == ledger.last_category_index
            Elig(i) == HasEligible(catalog[i + 1], Recent)
        IN  (\E i \in 0..(n - 1) : Elig(i)) =>
              \E d \in 0..(n - 1) :
                 /\ ledger'.last_category_index = (last + 1 + d) % n
                 /\ Elig((last + 1 + d) % n)
                 /\ \A e \in 0..(d - 1) : ~Elig((last + 1 + e) % n)
      ]_vars

\* a call that passed over the category next in rotation
C2_Witness ==
    /\ Returned /\ ret.path = "rotation"
    /\ Len(catalog) = 2
    /\ ledger.last_category_index # (ret.last_index + 1) % 2
    /\ ledger.articles # <<>>

\* C3 (Tie-break): on the rotation path the returned topic is the first
\* topic, in catalog order, of the chosen category whose lowercase form is
\* not in the recent set, returned with that category's display name.
C3_TieBreak ==
    (ret.op = "get_next_topic" /\ ret.path = "rotation") =>
        /\ ledger.last_category_index \in 0..(Len(catalog) - 1)
        /\ LET c == catalog[ledger.last_category_index + 1] IN
           /\ ret.category = c.name
           /\ \E i \in 1..Len(c.topics) :
                 /\ ret.topic = c.topics[i]
                 /\ Lower(c.topics[i]) \notin Recent
                 /\ \A j \in 1..(i - 1) : Lower(c.topics[j]) \in Recent

\* the first topic of the chosen category was in cooldown and the second won
C3_Witness ==
    /\ ret.op = "get_next_topic" /\ ret.path = "rotation"
    /\ LET c == catalog[ledger.last_category_index + 1] IN
       /\ Len(c.topics) = 2
       /\ ret.topic = c.topics[2]
       /\ Lower(c.topics[1]) \in Recent

ScenarioCatalog ==
    <<Category("a", "A", <<"t1", "t2">>), Category("b", "B", <<"t3">>)>>

\* what the caller of the scenario records for a returned topic
ScenarioRecord(topic, category) ==
    [topic |-> topic, title |-> "title", url |-> "url", category |-> category]

\* C5 (Scenario): catalog A:[t1,t2], B:[t3], empty ledger with index -1,
\* cooldown 10: the first call returns (t1, A) and persists index 0; with
\* that publication recorded the second returns (t3, B) and persists index
\* 1; with that one recorded too the third returns (t2, A).
C5_Scenario ==
    [][ (GetNextTopic /\ catalog = ScenarioCatalog /\ cooldown_count = 10) =>
        /\ ledger = EmptyLedger =>
              /\ ret'.topic = "t1" /\ ret'.category = "A"
              /\ ledger'.last_category_index = 0
        /\ ledger = [articles |-> <<ScenarioRecord("t1", "A")>>,
                     last_category_index |-> 0] =>
              /\ ret'.topic = "t3" /\ ret'.category = "B"
              /\ ledger'.last_category_index = 1
        /\ ledger = [articles |-> <<ScenarioRecord("t1", "A"),
                                    ScenarioRecord("t3", "B")>>,
                     last_category_index |-> 1] =>
              /\ ret'.topic = "t2" /\ ret'.category = "A"
      ]_vars

\* the state after the third call of the scenario
C5_Witness ==
    /\ catalog = ScenarioCatalog /\ cooldown_count = 10
    /\ ledger.articles = <<ScenarioRecord("t1", "A"), ScenarioRecord("t3", "B")>>
    /\ ret.op = "get_next_topic" /\ ret.last_index = 1
    /\ ret.topic = "t2" /\ ret.category = "A"

\* C6 (Recent set): for every ledger and every cooldown_count >= 0, the
\* recent set get_next_topic uses is exactly the set of lowercase topics of
\* the last min(cooldown_count, ledger length) entries; it is empty when the
\* ledger is empty or cooldown_count is 0.
C6_RecentSet ==
    /\ Recent = WindowTopics(ledger.articles, cooldown_count)
    /\ (ledger.articles = <<>> \/ cooldown_count = 0) => Recent = {}

\* C7 (Selection persists rotation before returning): once get_next_topic
\* has returned a topic found by the rotation scan, the ledger document
\* holds the index of that topic's category, at every later step of the run
\* and after it ended, whatever its exit code.
C7_RotationPersisted ==
    (pc \in {"research", "generate", "publish", "log", "done"}
       /\ run.path = "rotation") =>
        /\ ledger.last_category_index \in 0..(Len(catalog) - 1)
        /\ catalog[ledger.last_category_index + 1].name = run.category
        /\ run.topic \in Range(catalog[ledger.last_category_index + 1].topics)

\* two runs selected by rotation, the second stopped at the research step,
\* and nothing was ever logged: the index still advanced twice
C7_Witness ==
    /\ pc = "done" /\ exit_code = RESEARCH_ERROR
    /\ run.path = "rotation"
    /\ ledger.articles = <<>>
    /\ ledger.last_category_index = 1

\* C8 (Ledger index invariant): last_category_index is -1 or a valid
\* 0-based index into the current catalog's categories.
C8_IndexValid ==
    \/ ledger.last_category_index = -1
    \/ ledger.last_category_index \in 0..(Len(catalog) - 1)

\* the index points at the last of two categories after an add_topic that
\* followed a selection
C8_Witness ==
    /\ Len(catalog) = 2
    /\ ledger.last_category_index = 1
    /\ ret.op = "add_topic" /\ ret.path = "True"

\* C9 (Append-only ledger): every step leaves the earlier articles sequence
\* a prefix of the later one; log_publication adds exactly one record at the
\* tail; get_next_topic and add_topic leave the sequence as it is.
C9_AppendOnly ==
    [][ /\ Len(ledger'.articles) >= Len(ledger.articles)
        /\ SubSeq(ledger'.articles, 1, Len(ledger.articles)) = ledger.articles
        /\ LogReturned => Len(ledger'.articles) = Len(ledger.articles) + 1
        /\ (GetNextTopic \/ AddTopic) => ledger'.articles = ledger.articles
      ]_vars

\* a ledger of three records with a selection and an add_topic behind it
C9_Witness ==
    /\ Len(ledger.articles) = 3
    /\ ledger.articles[1] # ledger.articles[3]
    /\ ledger.last_category_index # -1
    /\ \E i \in 1..Len(catalog) : Len(catalog[i].topics) = 2

-----------------------------------------------------------------------------
(* Claims about the orchestrated calls *)

\* the collaborator's answer is a rate-limit report
IsRateLimited(s, signal) ==
    IF s = "research"
    THEN signal.kind = "exception" /\ {"rate", "limit"} \subseteq signal.words
    ELSE IF s = "generate"
    THEN signal.kind = "exception" /\ signal.class = "RateLimitError"
    ELSE signal.kind = "response" /\ signal.status_code = 429

\* the answer carries a wait hint: a numeric Retry-After on a publish 429
HasHint(s, signal) ==
    s = "publish" /\ signal.retry_after \in {"0", "7"}

HintOf(signal) == IF signal.retry_after = "0" THEN 0 ELSE 7

\* the base delay of each call site
SiteBase(s) == IF s = "research" THEN 2 ELSE IF s = "generate" THEN 10 ELSE base_delay

\* the rate-limit error each call site raises
RateLimitErrorOf(s) == IF s = "publish" THEN "WordPressRateLimitError" ELSE "RateLimitError"

\* every attempt so far was answered with a rate-limit report
AllRateLimited ==
    /\ site \in Sites
    /\ \A k \in 1..Len(trail) : IsRateLimited(site, trail[k].signal)

\* C10 (Retry exhaustion): while the collaborator reports RateLimited on every
\* attempt, the call makes exactly max_retries attempts; after attempt
\* k < max_retries it sleeps base_delay*2^(k-1) of its site (research 2,
\* generation 10, publish base_delay), or the server's hint when one is
\* given; after the last attempt it does not sleep and raises the site's
\* rate-limit error.
C10_RetryExhaustion ==
    AllRateLimited =>
        /\ Len(trail) <= max_retries
        /\ \A k \in 1..Len(trail) :
              IF k < max_retries
              THEN /\ trail[k].slept
                   /\ trail[k].delay =
                        IF HasHint(site, trail[k].signal)
                        THEN HintOf(trail[k].signal)
                        ELSE SiteBase(site) * 2 ^ (k - 1)
              ELSE ~trail[k].slept
        /\ IF Len(trail) = max_retries
           THEN status = RateLimitErrorOf(site)
           ELSE status = "running"

\* the call under way has ended with an exception
Failed == status \notin {"idle", "running", "returned"}

\* the answer of attempt k of the publish call is the HTTP status code
AnsweredCode(k, code) ==
    trail[k].signal.kind = "response" /\ trail[k].signal.status_code = code

\* attempt k was followed by another attempt, or the next one is due
Retried(k) == k < Len(trail) \/ status = "running"

\* C11 (Unauthorized/Forbidden never retried): a publish attempt answered
\* 401 or 403, the first or a later one, is the last request of the call,
\* is followed by no sleep, and the call raises WordPressAuthenticationError
\* or WordPressPermissionError; a 401 on the first attempt means exactly one
\* request is made.
C11_AuthNeverRetried ==
    site = "publish" =>
        \A k \in 1..Len(trail) :
            /\ AnsweredCode(k, 401) =>
                  /\ k = Len(trail) /\ ~trail[k].slept
                  /\ status = "WordPressAuthenticationError"
            /\ AnsweredCode(k, 403) =>
                  /\ k = Len(trail) /\ ~trail[k].slept
                  /\ status = "WordPressPermissionError"

\* a 401 on the second attempt, after a retried server error, with one
\* attempt still unused
C11_Witness ==
    /\ site = "publish" /\ max_retries = 3 /\ Len(trail) = 2
    /\ AnsweredCode(1, 503) /\ trail[1].slept
    /\ AnsweredCode(2, 401)
    /\ status = "WordPressAuthenticationError"

\* the answer is a 429 or a 5xx response
IsTransientResponse(signal) ==
    /\ signal.kind = "response"
    /\ signal.status_code = 429 \/ signal.status_code \in 500..599

\* requests reports a timeout (reading, or connecting)
IsTimeout(signal) ==
    signal.kind = "exception" /\ signal.class \in {"ReadTimeout", "ConnectTimeout"}

\* requests reports a connection failure that is not a timeout
IsConnectionFailure(signal) ==
    signal.kind = "exception" /\ signal.class = "ConnectionError"

\* the failure kinds that end the publish call at once
IsFatalPublish(signal) ==
    \/ signal.kind = "response" /\
         signal.status_code \notin ({200, 201, 429} \cup (500..599))
    \/ signal.kind = "response" /\ ~signal.json
    \/ signal.kind = "exception" /\ signal.class = "RequestException"

IsMalformed(signal) ==
    signal.kind = "response" /\ (~signal.parses \/ signal.missing # {})

\* C13 (Generation Malformed is retryable): in generate_article a response
\* that is unparseable JSON, or parseable JSON missing a required key, on
\* attempt k < max_retries is followed by attempt k+1; GenerationError is
\* raised for it only after max_retries attempts.
C13_MalformedRetried ==
    site = "generate" =>
        \A k \in 1..Len(trail) :
            IsMalformed(trail[k].signal) =>
                IF k < max_retries
                THEN Retried(k)
                ELSE status = "GenerationError"

\* the Tavily exception is classified RateLimited or Unreachable
IsResearchRetryable(signal) ==
    /\ signal.kind = "exception"
    /\ \/ {"rate", "limit"} \subseteq signal.words
       \/ "connect" \in signal.words
       \/ "timeout" \in signal.words

\* C14 (Research retry policy): in research_topic a failure classified
\* RateLimited or Unreachable on attempt k < max_retries is followed by a
\* sleep and attempt k+1; a failure of any other kind raises ResearchError
\* at its attempt, with no sleep and no further call, however many retried
\* failures came before.
C14_ResearchPolicy ==
    site = "research" =>
        \A k \in 1..Len(trail) :
            LET signal == trail[k].signal IN
            /\ (IsResearchRetryable(signal) /\ k < max_retries) =>
                  (trail[k].slept /\ Retried(k))
            /\ (signal.kind = "exception" /\ ~IsResearchRetryable(signal)) =>
                  /\ k = Len(trail) /\ ~trail[k].slept
                  /\ status = "ResearchError"

\* two retried failures, then one of another kind on the third attempt
C14_Witness ==
    /\ site = "research" /\ max_retries = 3 /\ Len(trail) = 3
    /\ trail[1].signal.words = {"rate", "limit"} /\ trail[1].slept
    /\ trail[2].signal.words = {"timeout"} /\ trail[2].slept
    /\ trail[3].signal.kind = "exception" /\ trail[3].signal.words = {"limit"}
    /\ status = "ResearchError"

\* C15 (Backoff and server hint): in the publish call the sleep after a
\* retryable failure on attempt k < max_retries is base_delay*2^(k-1),
\* except that after a 429 with a numeric Retry-After value h, for every
\* h >= 0 including 0, the sleep is exactly h.
C15_BackoffAndHint ==
    site = "publish" =>
        \A k \in 1..Len(trail) :
            trail[k].slept =>
                trail[k].delay =
                    IF AnsweredCode(k, 429) /\ HasHint(site, trail[k].signal)
                    THEN HintOf(trail[k].signal)
                    ELSE base_delay * 2 ^ (k - 1)

\* an answer with a status _handle_response has no branch for, whose body
\* is JSON but not an object
IsNonObjectError(signal) ==
    /\ signal.kind = "response"
    /\ signal.status_code \notin ({200, 201, 401, 403, 429} \cup (500..599))
    /\ signal.json /\ ~signal.object

-----------------------------------------------------------------------------
(* Claims about run_pipeline *)

\* the steps of run_pipeline in their order
StageOrder == <<"config", "init", "select", "research", "generate", "publish", "log">>

\* the steps whose failure ends the run with an error code
FatalStages == {"config", "init", "select", "research", "generate", "publish"}

\* the run has returned
Done == pc = "done"

\* C17 as stated (Exit code mapping): run_pipeline returns 1 iff
\* configuration loading failed, 2 iff topic selection failed, 3 iff the
\* research stage failed (whatever the failure kind), 4 iff the generation
\* stage failed, 5 iff the publish stage failed, and 0 otherwise; the value
\* returned is always one of 0..5.
C17_ExitCodeMapping ==
    Done =>
        /\ exit_code \in 0..5
        /\ exit_code = 1 <=> run.failed = "config"
        /\ exit_code = 2 <=> run.failed = "select"
        /\ exit_code = 3 <=> run.failed = "research"
        /\ exit_code = 4 <=> run.failed = "generate"
        /\ exit_code = 5 <=> run.failed = "publish"
        /\ exit_code = 0 <=>
              run.failed \notin {"config", "select", "research", "generate", "publish"}

\* C17 amended: run_pipeline returns 1 iff configuration loading or module
\* initialisation failed, 2 iff topic selection failed, 3 iff the research
\* stage failed (whatever the failure kind), 4 iff the generation stage
\* failed, 5 iff the publish stage failed, and 0 otherwise; the value
\* returned is always one of 0..5.
C17_ExitCodeMappingAmended ==
    Done =>
        /\ exit_code \in 0..5
        /\ exit_code = 1 <=> run.failed \in {"config", "init"}
        /\ exit_code = 2 <=> run.failed = "select"
        /\ exit_code = 3 <=> run.failed = "research"
        /\ exit_code = 4 <=> run.failed = "generate"
        /\ exit_code = 5 <=> run.failed = "publish"
        /\ exit_code = 0 <=> run.failed \notin FatalStages

\* research gave up on a rate limit, which is no ResearchError, and the run
\* returned 3
C17_Witness ==
    /\ Done /\ run.failed = "research" /\ run.error = "RateLimitError"
    /\ exit_code = 3

\* C18 as stated (Distinct outcome per stage): failures at two different
\* stages among config, module init, topic selection, research, generation
\* and publish never report the same exit code.
C18_DistinctOutcome ==
    ( /\ Done
      /\ run.failed \in FatalStages /\ run.prev.failed \in FatalStages
      /\ run.failed # run.prev.failed )
    => exit_code # run.prev.exit_code

\* C18 amended: failures at two different stages never report the same exit
\* code, except that a failure of configuration loading and a failure of
\* module initialisation both report 1.
C18_DistinctOutcomeAmended ==
    ( /\ Done
      /\ run.failed \in FatalStages /\ run.prev.failed \in FatalStages
      /\ run.failed # run.prev.failed )
    => IF {run.failed, run.prev.failed} = {"config", "init"}
       THEN exit_code = 1 /\ run.prev.exit_code = 1
       ELSE exit_code # run.prev.exit_code

\* a run that failed at the generation step after one that failed at the
\* research step
C18_Witness ==
    /\ Done
    /\ run.failed = "generate" /\ run.prev.failed = "research"
    /\ exit_code # run.prev.exit_code

\* the first n steps
FirstStages(n) == SubSeq(StageOrder, 1, n)

\* the place of a step in the order
StagePos(stage) == CHOOSE i \in 1..Len(StageOrder) : StageOrder[i] = stage

\* C19 (Strict sequencing and abort): the steps run in the order config,
\* module init, topic selection, research, generation, publish, ledger
\* write; a step is about to run only when all before it were entered and
\* none failed; once a step has failed the run has returned and that step is
\* the last one entered; the ledger gets a record only in the ledger-write
\* step of a run in which nothing failed.
C19_StrictSequence ==
    /\ [] ( /\ \E n \in 0..Len(StageOrder) : run.stages = FirstStages(n)
            /\ pc \in Range(StageOrder) =>
                  /\ run.failed = None
                  /\ run.stages = FirstStages(StagePos(pc) - 1)
            /\ run.failed # None =>
                  /\ Done
                  /\ run.stages # <<>>
                  /\ run.stages[Len(run.stages)] = run.failed )
    /\ [][ ledger'.articles # ledger.articles =>
              (pc = "log" /\ run.failed = None /\ run.stages = FirstStages(6))
         ]_vars

\* a run stopped by the generation step, after a run that published
C19_Witness ==
    /\ Done /\ run.failed = "generate"
    /\ run.stages = FirstStages(5)
    /\ exit_code = GENERATION_ERROR
    /\ Len(ledger.articles) = 1

\* C20 (Ledger-write failure is non-fatal): when publish succeeded and
\* log_publication raises, run_pipeline still returns 0; a failure of any
\* other step makes it return something else.
C20_LedgerWriteNonFatal ==
    Done =>
        /\ run.failed = "log" => exit_code = SUCCESS
        /\ run.failed \in FatalStages => exit_code # SUCCESS

\* the post went out, the ledger write failed, the run reported success
C20_Witness ==
    /\ Done /\ run.failed = "log" /\ run.url = "url"
    /\ run.stages = StageOrder
    /\ ledger.articles = <<>>
    /\ exit_code = SUCCESS

-----------------------------------------------------------------------------
(* Dry run *)

\* the run was asked, by the CLI flag or by the configuration it loaded, to
\* be a dry run
DryRunAsked == run.dry_run \/ run.config_dry_run

\* C21 (Dry run): with dry-run in effect (CLI flag or configuration) a run
\* never invokes publish and never appends to the ledger; a dry run that
\* completes the generation step stops there with exit code 0.
C21_DryRun ==
    /\ [] ( DryRunAsked =>
              /\ "publish" \notin Range(run.stages)
              /\ "log" \notin Range(run.stages)
              /\ pc \notin {"log"}
              /\ (Done /\ "generate" \in Range(run.stages) /\ run.failed = None) =>
                    (exit_code = SUCCESS /\ run.stages = FirstStages(5)) )
    /\ [][ (DryRunAsked /\ pc \notin {"idle", "done"}) =>
              ledger'.articles = ledger.articles ]_vars

\* a dry run asked for by the configuration alone has generated its article
\* and returned 0, after a run that published
C21_Witness ==
    /\ Done /\ ~run.dry_run /\ run.config_dry_run
    /\ run.stages = FirstStages(5) /\ run.failed = None
    /\ run.title = "title" /\ run.url = None
    /\ exit_code = SUCCESS
    /\ Len(ledger.articles) = 1

-----------------------------------------------------------------------------
(* Store failure *)

\* one of the two documents cannot be loaded
StoreFails == ~(Loadable("topics_file") /\ Loadable("published_file"))

\* C22 (Store failure is fatal with no partial selection): when the catalog
\* or the ledger document cannot be loaded, get_next_topic raises without
\* writing to either document, and the run returns 2 with no research,
\* generation or publish step entered.
C22_StoreFailure ==
    /\ [][ (pc = "select" /\ run.override = None /\ StoreFails) =>
              /\ ret'.op = "get_next_topic" /\ ret'.path = "load_error"
              /\ ret'.topic = None
              /\ catalog' = catalog /\ ledger' = ledger /\ files' = files
              /\ pc' = "done" /\ exit_code' = TOPIC_ERROR
              /\ run'.failed = "select" /\ run'.error = "RuntimeError"
              /\ run'.stages = FirstStages(3) ]_vars
    /\ [] ( (Done /\ run.failed = "select") =>
              (exit_code = TOPIC_ERROR /\ run.stages = FirstStages(3)) )

\* the ledger document was unreadable: the run stopped at topic selection
C22_Witness ==
    /\ Done /\ run.failed = "select" /\ run.error = "RuntimeError"
    /\ files.published_file = "corrupt" /\ files.topics_file = "ok"
    /\ catalog # <<>>
    /\ ret.op = "get_next_topic" /\ ret.path = "load_error"
    /\ ledger = EmptyLedger
    /\ exit_code = TOPIC_ERROR

-----------------------------------------------------------------------------
(* Seeding *)

\* C23 (Idempotent seeding): constructing TopicManager leaves a catalog
\* document and a ledger document that exist as they are, whatever they
\* hold; the default catalog is written only when the catalog document is
\* absent and the empty ledger only when the ledger document is absent;
\* after a construction both exist, so that a second construction changes
\* nothing and never resets articles or last_category_index.
C23_IdempotentSeeding ==
    /\ [][ ret'.op = "__init__" =>
              /\ Exists("topics_file") =>
                    (catalog' = catalog /\ files'.topics_file = files.topics_file)
              /\ Exists("published_file") =>
                    (ledger' = ledger /\ files'.published_file = files.published_file)
              /\ ~Exists("topics_file") =>
                    (catalog' = DEFAULT_TOPIC_POOL /\ files'.topics_file = "ok")
              /\ ~Exists("published_file") =>
                    (ledger' = EmptyLedger /\ files'.published_file = "ok")
          ]_vars
    /\ [] ( Constructed => (Exists("topics_file") /\ Exists("published_file")) )

\* a TopicManager constructed over the documents it seeded and then used:
\* the articles and the rotation index are still there
C23_Witness ==
    /\ ret.op = "__init__"
    /\ catalog = DEFAULT_TOPIC_POOL
    /\ Len(ledger.articles) = 2
    /\ ledger.last_category_index = 1

-----------------------------------------------------------------------------
(* The category of a publication record *)

\* the categories of the catalog that hold the topic, letter case aside
Holding(topic) ==
    {i \in 1..Len(catalog) :
        \E j \in 1..Len(catalog[i].topics) :
            Lower(catalog[i].topics[j]) = Lower(topic)}

\* the record log_publication has just appended
NewRecord == ledger.articles[Len(ledger.articles)]

\* C24 (category resolution): log_publication called without a category
\* (None, or the empty string, which the code takes as none) stores in the new
\* record the display name of the first catalog category, in catalog order,
\* that holds the topic case-insensitively, or "Unknown" if none holds it;
\* called with a category it stores that category unchanged.
C24_CategoryResolution ==
    (ret.op = "log_publication" /\ ret.path = "returned") =>
        /\ ledger.articles # <<>>
        /\ NewRecord.topic = ret.topic
        /\ IF ret.category \in {None, ""}
           THEN IF Holding(ret.topic) = {}
                THEN NewRecord.category = "Unknown"
                ELSE \E i \in Holding(ret.topic) :
                        /\ \A j \in Holding(ret.topic) : i <= j
                        /\ NewRecord.category = catalog[i].name
           ELSE NewRecord.category = ret.category

\* "t1" is logged without a category against a catalog whose first category
\* holds "T1" and whose second holds "t1": the first one's name is stored
C24_Witness ==
    /\ ret.op = "log_publication" /\ ret.path = "returned"
    /\ ret.category = None /\ ret.topic = "t1"
    /\ Len(catalog) = 2
    /\ catalog[1].topics = <<"T1", "t3">> /\ "t1" \in Range(catalog[2].topics)
    /\ NewRecord.category = "A"

-----------------------------------------------------------------------------
(* The catalog under add_topic *)

\* no category of the catalog holds two topics equal but for letter case
DuplicateFree(topic_pool) ==
    \A i \in 1..Len(topic_pool) :
        \A j, k \in 1..Len(topic_pool[i].topics) :
            Lower(topic_pool[i].topics[j]) = Lower(topic_pool[i].topics[k]) => j = k

\* the categories with the key
WithKey(topic_pool, category_key) ==
    {i \in 1..Len(topic_pool) : topic_pool[i].key = category_key}

\* C25 (Catalog duplicate-freedom): from a catalog in which no category
\* holds two topics equal case-insensitively, no sequence of add_topic calls
\* (among get_next_topic and log_publication calls) leads to one that does;
\* add_topic returns False and leaves the catalog unchanged when the category
\* key is unknown or the topic is in that category already, letter case
\* aside, and otherwise returns True having appended the topic to that
\* category and changed nothing else.
C25_DuplicateFree ==
    /\ [] DuplicateFree(catalog)
    /\ [][ ret'.op = "add_topic" =>
              LET at == WithKey(catalog, ret'.category) IN
              IF \/ at = {}
                 \/ \E i \in at : \E j \in 1..Len(catalog[i].topics) :
                       Lower(catalog[i].topics[j]) = Lower(ret'.topic)
              THEN ret'.path = "False" /\ catalog' = catalog
              ELSE /\ ret'.path = "True"
                   /\ \E i \in at :
                        catalog' = [catalog EXCEPT
                                       ![i].topics = Append(@, ret'.topic)]
          ]_vars

\* "T1" went into category b although category a holds "t1"
C25_Witness ==
    /\ ret.op = "add_topic" /\ ret.path = "True"
    /\ ret.topic = "T1" /\ ret.category = "b"
    /\ Len(catalog) = 2
    /\ catalog[1].topics = <<"t1">>
    /\ catalog[2].topics = <<"T1">>

-----------------------------------------------------------------------------
(* The article result *)

\* "parga" in any of the letter cases tried
IsParga(k) == k \in {"parga", "Parga", "PARGA"}

\* C26 (Keyword invariant): the keywords of every ArticleResult built by
\* _build_article_result contain "parga" in some letter case; if the
\* payload's keywords already do, they are the result's unchanged; if not,
\* the result's are "parga" followed by the payload's in their order.
C26_KeywordInvariant ==
    article.state = "returned" =>
        LET input == article.keywords
            output == article.result.keywords
        IN  /\ \E i \in 1..Len(output) : IsParga(output[i])
            /\ IF \E i \in 1..Len(input) : IsParga(input[i])
               THEN output = input
               ELSE /\ Len(output) = Len(input) + 1
                    /\ output[1] = "parga"
                    /\ \A i \in 1..Len(input) : output[i + 1] = input[i]

\* two keywords, neither of them "parga": it was put in front
C26_Witness ==
    /\ article.state = "returned"
    /\ article.keywords = <<"beach", "greece">>
    /\ article.result.keywords = <<"parga", "beach", "greece">>

\* C27 (Excerpt bounding): an excerpt of more than 160 characters comes out
\* 160 long, its first 157 characters followed by "..."; one of 160 or fewer
\* comes out unchanged, a result being built (no error) also when it has
\* fewer than 150; so no result's excerpt is longer than 160.
C27_ExcerptBounding ==
    /\ (article.state # "payload" /\ REQUIRED_FIELDS \subseteq article.fields) =>
            article.state = "returned"
    /\ article.state = "returned" =>
          LET input == article.excerpt
              output == article.result.excerpt
          IN  /\ Len(output) <= 160
              /\ IF Len(input) > 160
                 THEN /\ Len(output) = 160
                      /\ \A i \in 1..157 : output[i] = input[i]
                      /\ \A i \in 158..160 : output[i] = "."
                 ELSE output = input

\* an excerpt of 161 letters was cut to 157 and the dots
C27_Witness ==
    /\ article.state = "returned"
    /\ Len(article.excerpt) = 161
    /\ article.excerpt[158] # "."
    /\ Len(article.result.excerpt) = 160
    /\ article.result.excerpt[157] = article.excerpt[157]
    /\ article.result.excerpt[158] = "."

-----------------------------------------------------------------------------
(* The classification of HTTP statuses *)

\* the answer of attempt k, when it is a response
CodeOf(k) == trail[k].signal.status_code

\* attempt k ended the call
Last(k) == k = Len(trail) /\ status # "running"

\* C28 (Publish status classification is total and exclusive): every HTTP
\* status has exactly one outcome: 200 and 201 end the call with success, 401
\* with WordPressAuthenticationError, 403 with WordPressPermissionError; 429
\* is the rate-limit error (retried, with the numeric Retry-After as its
\* delay when there is one, else with the backoff; raised when the attempts
\* are used up), 500..599 the server error (retried likewise, with the
\* backoff); every other status ends the call at once with the generic
\* WordPressError.
C28_StatusClassification ==
    site = "publish" =>
        \A k \in 1..Len(trail) :
            trail[k].signal.kind = "response" =>
                IF CodeOf(k) \in {200, 201}
                THEN Last(k) /\ status = "returned"
                ELSE IF CodeOf(k) = 401
                THEN Last(k) /\ status = "WordPressAuthenticationError"
                ELSE IF CodeOf(k) = 403
                THEN Last(k) /\ status = "WordPressPermissionError"
                ELSE IF CodeOf(k) = 429
                THEN IF k < max_retries
                     THEN /\ Retried(k) /\ trail[k].slept
                          /\ (HasHint(site, trail[k].signal)
                                 /\ HintOf(trail[k].signal) # 0) =>
                                trail[k].delay = HintOf(trail[k].signal)
                          /\ ~HasHint(site, trail[k].signal) =>
                                trail[k].delay = Backoff(base_delay, k)
                     ELSE Last(k) /\ status = "WordPressRateLimitError"
                ELSE IF CodeOf(k) \in 500..599
                THEN IF k < max_retries
                     THEN /\ Retried(k) /\ trail[k].slept
                          /\ trail[k].delay = Backoff(base_delay, k)
                     ELSE Last(k) /\ status = "WordPressServerError"
                ELSE /\ Last(k) /\ ~trail[k].slept
                     /\ status = "WordPressError"

-----------------------------------------------------------------------------
(* Concurrent runs *)

\* both runs have ended
AllEnded == \A p \in Runs : procs[p].pc \in {"done", "failed"}

\* the ledger holds the record the run logged
Holds(p) == \E i \in 1..Len(ledger.articles) : ledger.articles[i].url = UrlOf(p)

\* C29 (Lost update under concurrent runs): when two runs on the same ledger
\* have ended, the ledger is the document that the run which saved last had
\* loaded, with that run's record appended; a record the other run appended
\* (or an index its get_next_topic wrote) after that load is not in it.  That
\* such an execution exists is shown by the witness.
C29_LostUpdate ==
    (procs # NoProcs /\ AllEnded /\ \E p \in Runs : procs[p].logged) =>
        \E p \in Runs :
            /\ procs[p].logged
            /\ ledger = [procs[p].published EXCEPT
                            !.articles = Append(@, RecordOf(p))]
            /\ \A q \in Runs \ {p} :
                  Holds(q) <=>
                      \E i \in 1..Len(procs[p].published.articles) :
                          procs[p].published.articles[i].url = UrlOf(q)

\* both runs logged a publication and the ledger holds only that of run 2:
\* run 2 saved the document it had loaded before run 1 saved
C29_Witness ==
    /\ procs # NoProcs
    /\ \A p \in Runs : procs[p].pc = "done" /\ procs[p].logged
    /\ ~Holds(1) /\ Holds(2)
    /\ Len(ledger.articles) = 1

-----------------------------------------------------------------------------
(* The last branch of get_next_topic *)

\* some category of the catalog has a topic
HasTopic == \E i \in 1..Len(catalog) : catalog[i].topics # <<>>

\* C30 (Empty-ledger fallback): with no articles in the ledger and at least
\* one topic in the catalog get_next_topic returns through the rotation
\* scan; its last branch (first topic of the first category) is reached only
\* with no articles in the ledger and no topic in any category, and there it
\* returns a topic and does not raise.
C30_EmptyLedgerFallback ==
    ret.op = "get_next_topic" =>
        /\ (ledger.articles = <<>> /\ HasTopic) => ret.path = "rotation"
        /\ ret.path \in {"first", "raise"} =>
              (ledger.articles = <<>> /\ ~HasTopic)
        /\ (ledger.articles = <<>> /\ ~HasTopic) =>
              (ret.path = "first" /\ ret.topic \in Topics)

-----------------------------------------------------------------------------
(* The ledger record of a run *)

\* the records the run under way, or just ended, has appended
Appended == Len(ledger.articles) - run.before.articles

\* C31 (One ledger record per successful publish): a run appends a record
\* only in its ledger-write step, after its publish call succeeded; it
\* appends at most one; it appends exactly one, with the selected topic, the
\* article title and the URL the backend returned, when publish succeeded and
\* the ledger write did not fail; a run that returns a non-zero code appends
\* none.
C31_OneRecordPerPublish ==
    /\ [] ( pc # "idle" =>
              /\ Appended \in {0, 1}
              /\ Appended = 1 =>
                    /\ Done /\ run.failed = None /\ run.stages = StageOrder
                    /\ exit_code = SUCCESS
                    /\ NewRecord.topic = run.topic
                    /\ NewRecord.title = run.title
                    /\ NewRecord.url = run.url
                    /\ run.url # None
              /\ (Done /\ run.stages = StageOrder /\ run.failed = None) =>
                    Appended = 1
              /\ (Done /\ exit_code # SUCCESS) => Appended = 0 )
    /\ [][ ledger'.articles # ledger.articles =>
              /\ pc = "log" /\ "publish" \in Range(run.stages)
              /\ run.failed = None /\ run.url # None
              /\ SubSeq(ledger'.articles, 1, Len(ledger.articles)) = ledger.articles
          ]_vars

\* the second run of a behaviour published and logged its record
C31_Witness ==
    /\ Done /\ run.stages = StageOrder /\ run.failed = None
    /\ run.before.articles = 1
    /\ Len(ledger.articles) = 2
    /\ NewRecord.topic = run.topic /\ NewRecord.url = "url"
    /\ exit_code = SUCCESS

-----------------------------------------------------------------------------
(* The delays of the three loops compared *)

\* a rate-limit failure as research_topic sees it
ResearchRateLimit == [kind |-> "exception", words |-> {"rate", "limit"}]

\* a 429 without a Retry-After header as _request_with_retry sees it
PublishRateLimit ==
    [kind |-> "response", class |-> "none", status_code |-> 429,
     retry_after |-> "absent", json |-> TRUE, object |-> TRUE]

\* the generation failure is a connection failure
IsGenerateConnection(signal) ==
    signal.kind = "exception" /\ signal.class \in {"APIConnectionError", "APITimeoutError"}

\* C32 (Generation backoff is the longest): the sleep of generate_article
\* after a rate-limit failure on attempt k is 5*2^k, which is more than the
\* sleep of research_topic after a rate-limit failure on attempt k and more
\* than the sleep the publish loop computes on attempt k with the default
\* base delay; after a connection failure generate_article sleeps 2^k; it
\* does not sleep after a malformed response, retried or not.
C32_GenerationBackoff ==
    site = "generate" =>
        \A k \in 1..Len(trail) :
            LET signal == trail[k].signal IN
            /\ (IsRateLimited("generate", signal) /\ Retried(k)) =>
                  /\ trail[k].slept
                  /\ trail[k].delay = 5 * 2 ^ k
                  /\ trail[k].delay >
                        research_pass(ResearchRateLimit, k, max_retries).delay
                  /\ trail[k].delay >
                        request_pass(PublishRateLimit, k, max_retries,
                                     DEFAULT_BASE_DELAY).delay
            /\ (IsGenerateConnection(signal) /\ Retried(k)) =>
                  (trail[k].slept /\ trail[k].delay = 2 ^ k)
            /\ IsMalformed(signal) => (~trail[k].slept /\ trail[k].delay = 0)

\* a rate-limit failure, then an unparseable response, each retried
C32_Witness ==
    /\ site = "generate" /\ max_retries = 3 /\ Len(trail) = 3
    /\ IsRateLimited("generate", trail[1].signal)
    /\ trail[1].slept /\ trail[1].delay = 10
    /\ trail[2].signal.kind = "response" /\ ~trail[2].signal.parses
    /\ ~trail[2].slept
    /\ IsGenerateConnection(trail[3].signal)

-----------------------------------------------------------------------------
(* What add_topic leaves alone *)

\* the step is a call of add_topic that returned True
AddedTopic == ret'.op = "add_topic" /\ ret'.path = "True"

\* C33 (add_topic frame): a call of add_topic(topic, key) that returns True
\* appends topic at the end of the topic list of category key and changes
\* nothing else: the category keys and their order, every display name, the
\* topic lists of the other categories, the earlier topics of category key
\* and their order, and the ledger document stay as they were.
C33_AddTopicFrame ==
    [][ AddedTopic =>
          LET i == KeyPos(catalog, ret'.category) IN
          /\ i # 0
          /\ Len(catalog') = Len(catalog)
          /\ \A j \in 1..Len(catalog) :
                /\ catalog'[j].key = catalog[j].key
                /\ catalog'[j].name = catalog[j].name
                /\ j # i => catalog'[j].topics = catalog[j].topics
          /\ catalog'[i].topics = Append(catalog[i].topics, ret'.topic)
          /\ ledger' = ledger
      ]_vars

\* a topic was added behind another one in the second of two categories,
\* with a record in the ledger
C33_Witness ==
    /\ ret.op = "add_topic" /\ ret.path = "True" /\ ret.category = "b"
    /\ Len(catalog) = 2 /\ Len(catalog[2].topics) = 2
    /\ catalog[2].topics[2] = ret.topic
    /\ catalog[1].topics # <<>>
    /\ ledger.articles # <<>>

-----------------------------------------------------------------------------
(* What the selector and the ledger writer leave alone *)

\* C35 (Selector and ledger-writer frame conditions): a call of
\* get_next_topic leaves the ledger's articles and the catalog as they were,
\* and when it returns through the exhaustion fallback it leaves the whole
\* ledger, last_category_index included, as it was; a call of
\* log_publication leaves last_category_index and the catalog as they were.
C35_SelectorWriterFrame ==
    [][ /\ ret'.op = "get_next_topic" =>
              /\ ledger'.articles = ledger.articles
              /\ catalog' = catalog
              /\ ret'.path = "oldest" => ledger' = ledger
        /\ ret'.op = "log_publication" =>
              /\ ledger'.last_category_index = ledger.last_category_index
              /\ catalog' = catalog
      ]_vars

\* the selector moved the index over a ledger of two records and left them
C35_Witness ==
    /\ ret.op = "get_next_topic" /\ ret.path = "rotation"
    /\ ret.last_index # ledger.last_category_index
    /\ Len(ledger.articles) = 2
    /\ Len(catalog) = 2

-----------------------------------------------------------------------------
(* The posts one publish call creates *)

\* C38 (At most one remote post per publish): one publish_post call leaves
\* at most one post on the backend, whatever the attempts' outcomes,
\* including a timeout or a 5xx after the backend applied the request,
\* followed by a retry.
C38_AtMostOnePost ==
    site = "publish" => posts <= 1

-----------------------------------------------------------------------------
(* Interrupts *)

\* the run ended with a KeyboardInterrupt
Interrupted == run.error = "KeyboardInterrupt"

\* the place of a stage in the order of the stages
StageNo(stage) == CHOOSE i \in 1..Len(StageOrder) : StageOrder[i] = stage

\* C34 (Interrupt handling): an interrupt that arrives in a stage ends the
\* run at that stage: the stages run are those up to it and no later one,
\* and the exit code is not 0.  Nothing is rolled back: an interrupt in a
\* stage after the selection leaves the persisted rotation index as it is
\* (as long as published.json still parses), an interrupt never removes a
\* ledger record or a post, and outside the publish stage the posts on the
\* backend are the same before and after.
C34_InterruptHandling ==
    /\ [] ( Interrupted =>
              /\ Done /\ exit_code # SUCCESS
              /\ run.stages = SubSeq(StageOrder, 1, StageNo(run.failed)) )
    /\ [][ (Interrupted' /\ pc # "done") =>
              /\ run'.failed = pc
              /\ posts' >= posts
              /\ pc # "publish" => posts' = posts
              /\ pc \in {"research", "generate", "publish"} =>
                    (ledger' = ledger /\ files' = files)
              /\ (pc = "log" /\ Loadable("published_file")') =>
                    /\ ledger'.last_category_index = ledger.last_category_index
                    /\ SubSeq(ledger'.articles, 1, Len(ledger.articles)) =
                          ledger.articles
              /\ pc = "select" => ledger'.articles = ledger.articles
          ]_vars

\* an interrupt in the publish stage of a run whose selection moved the
\* index, with a post on the backend
C34_Witness ==
    /\ Interrupted /\ run.failed = "publish" /\ exit_code = INTERRUPTED
    /\ run.path = "rotation"
    /\ ledger.last_category_index # run.before.last_category_index
    /\ posts >= 1

-----------------------------------------------------------------------------
(* Coverage of the catalog *)

\* the topics of the catalog
CatalogTopics == UNION {Range(catalog[i].topics) : i \in 1..Len(catalog)}

\* C36 (Eventual coverage): when get_next_topic and log_publication of the
\* returned topic are repeated without end, with cooldown_count >= 1, every
\* topic of the catalog is eventually returned by get_next_topic.
C36_EventualCoverage ==
    \A t \in Topics :
        (t \in CatalogTopics) => <>(Returned /\ ret.topic = t)

-----------------------------------------------------------------------------
(* A cooldown smaller than the catalog *)

\* the number of topics of the catalog that differ beyond letter case
DistinctTopics == Cardinality({Lower(t) : t \in CatalogTopics})

\* C37 (Fallback is never taken while the cooldown is smaller than the
\* catalog): with 1 <= cooldown_count < the number of case-insensitively
\* distinct topics of the catalog, get_next_topic returns through the
\* rotation scan whatever the ledger holds: a topic of the catalog that is
\* not in the recent set, and not the oldest ledger entry by way of the
\* fallback.
C37_NoFallback ==
    ( /\ ret.op = "get_next_topic"
      /\ cooldown_count >= 1
      /\ cooldown_count < DistinctTopics )
    => /\ ret.path = "rotation"
       /\ ret.topic \in CatalogTopics
       /\ Lower(ret.topic) \notin Recent

\* a call over a ledger of three records whose last two fill the recent set
C37_Witness ==
    /\ ret.op = "get_next_topic" /\ ret.path = "rotation"
    /\ cooldown_count = 2 /\ DistinctTopics = 3
    /\ Len(ledger.articles) = 3
    /\ Cardinality(Recent) = 2
    /\ Recent \subseteq {Lower(t) : t \in CatalogTopics}

-----------------------------------------------------------------------------
(* Bounded attempts and termination *)

\* the attempt was answered with a result the call returns
Succeeded(s, signal) ==
    IF s = "research" THEN signal.kind = "ok"
    ELSE IF s = "generate"
    THEN signal.kind = "response" /\ signal.parses /\ signal.missing = {}
    ELSE signal.kind = "response" /\ signal.status_code \in {200, 201}
         /\ signal.json

\* the attempt failed in a way its site does not retry
NonRetryable(s, signal) ==
    IF s = "research"
    THEN signal.kind = "exception" /\ ~IsResearchRetryable(signal)
    ELSE IF s = "generate"
    THEN signal.kind = "exception" /\
         signal.class \in {"InternalServerError", "Exception"}
    ELSE \/ IsFatalPublish(signal)
         \/ IsConnectionFailure(signal)
         \/ signal.kind = "exception" /\ signal.class = "RequestException"

\* the attempts of the call that were followed by a sleep
Sleeps == {k \in 1..Len(trail) : trail[k].slept}

ExitCodes == {SUCCESS, CONFIG_ERROR, TOPIC_ERROR, RESEARCH_ERROR,
              GENERATION_ERROR, PUBLISHING_ERROR}

\* C39 (Bounded attempts and termination): whatever the collaborator
\* answers, a call of research_topic, generate_article or
\* _request_with_retry makes at most max_retries attempts and sleeps at most
\* max_retries - 1 times, makes no attempt after a success or a failure its
\* site does not retry, ends returning exactly when its last attempt
\* succeeded, and does end; and every run of the pipeline ends with an exit
\* code.
C39_BoundedTermination ==
    /\ [] ( site \in Sites =>
              /\ Len(trail) <= max_retries
              /\ Cardinality(Sleeps) <= max_retries - 1
              /\ \A k \in 1..Len(trail) :
                    (Succeeded(site, trail[k].signal)
                       \/ NonRetryable(site, trail[k].signal)) => Last(k)
              /\ status # "running" =>
                    /\ Len(trail) >= 1
                    /\ status = "returned" <=>
                          Succeeded(site, trail[Len(trail)].signal) )
    /\ (status = "running") ~> (status # "running")
    /\ (pc \notin {"idle", "done"}) ~> (Done /\ exit_code \in ExitCodes)

\* the publish call of a run returned on its third attempt, after two sleeps
C39_Witness ==
    /\ pc = "publish" /\ site = "publish" /\ status = "returned"
    /\ max_retries = 3 /\ Len(trail) = 3
    /\ Cardinality(Sleeps) = 2

-----------------------------------------------------------------------------
(* Runs with a topic override *)

\* the run under way, or just ended, was given a topic override
Overridden == pc # "idle" /\ run.override # None

\* C40 (Topic override bypasses the selector): in a run with a topic
\* override get_next_topic is not called and last_category_index stays what
\* it was when the run began; a record the run appends carries the override
\* topic and, as category, the display name of a catalog category that
\* holds the topic case-insensitively, or "Unknown" when none does, and not
\* the placeholder "Custom".
C40_OverrideBypassesSelector ==
    Overridden =>
        /\ ret.op # "get_next_topic"
        /\ ledger.last_category_index = run.before.last_category_index
        /\ Appended = 1 =>
              /\ NewRecord.topic = run.override
              /\ NewRecord.category # "Custom"
              /\ IF Holding(run.override) = {}
                 THEN NewRecord.category = "Unknown"
                 ELSE NewRecord.category \in
                          {catalog[i].name : i \in Holding(run.override)}

\* a run with the override "T1" published and its record has the category
\* of the catalog's "t1"
C40_Witness ==
    /\ Overridden /\ Done /\ Appended = 1
    /\ run.override = "T1" /\ NewRecord.topic = "T1"
    /\ "T1" \notin CatalogTopics
    /\ Holding("T1") # {}
    /\ NewRecord.category \in {catalog[i].name : i \in Holding("T1")}

====
